---- MODULE Spec2Model ----
(***************************************************************************)
(* A model of celebi.astonish.client.AstonishClient: the forum client that *)
(* logs in to the ASTONISH Jcink forum, fetches pages through the retrying *)
(* `get`, and keeps a TTL cache of characters.                             *)
(*                                                                         *)
(* The client runs on one asyncio event loop.  A coroutine runs without    *)
(* interruption from one await to the next, so every action below is one   *)
(* such synchronous segment: it consumes the result of the await the       *)
(* coroutine was suspended at (an HTTP response chosen by the forum, the   *)
(* end of a sleep) and runs the code up to the next await, the return or   *)
(* the raise.  The forum is the environment: every response is drawn from  *)
(* a small set with \E.  A request is counted when it is issued.           *)
(*                                                                         *)
(* The cookie jar is the set of cookie names it holds for the forum.  A    *)
(* login response adds the cookies it sets; responses that delete cookies  *)
(* are not modelled.                                                       *)
(***************************************************************************)
EXTENDS Integers, Sequences, FiniteSets, TLC

(* ------------------------------ bounds -------------------------------- *)

\* The monotonic clock runs from 0 to MaxTime ticks.
MaxTime == 3
\* In a run of Spec the forum gives at most MaxFaults responses other than
\* the expected one (a login that sets every cookie, a 2xx page of a
\* logged-in member with all its parts and the requested member's data).
MaxFaults == 2
\* TTLCache(maxsize=256, ttl=15 * 60): both scaled down, the clock counts
\* ticks instead of seconds and the capacity is below the number of member
\* ids, so that entries expire and are evicted within the bounds.
maxsize == 1
ttl == 2

(* ------------------------- program constants -------------------------- *)

\* backoff.on_exception(..., max_tries=2): the try + the retry.
max_tries == 2

\* The member ids.
Ids == {1, 2}
\* The contents the forum may hold for a member's edit form.
Vers == {"v1", "v2"}
Cookies == {"member_id", "session_id", "pass_hash"}

(* ------------------------------ values -------------------------------- *)

NoVal == [t |-> "none"]

\* The query of the href of one link matched by the navigation selector
\* a[href*="showuser="]; the last one contains the text "showuser=" but has
\* no showuser parameter.
GuestLink == [showuser |-> "0"]
MemberLink == [showuser |-> "7"]
OtherLink == [xshowuser |-> "7"]

\* The links the navigation selector matches in a document, in order.
Navs == {<<>>, <<GuestLink>>, <<MemberLink>>, <<OtherLink>>,
         <<GuestLink, MemberLink>>}

\* A parsed document: the navigation links, whether the heading
\* "Edit a users profile: <username>" is there, the memberid of the matching
\* edit form's action (0: no form matches), the number of elements matching
\* the trainer-class selector, the version of the data and whether the data
\* passes Character.model_validate.  Three more parts are the same in most
\* documents: the origin of that form's action URL ("forum" or "other"),
\* the member ids of the cards of a member list and the text of the first
\* element matching the trainer-class selector.
Doc(nav, heading, form, spans, ver, valid) ==
    [t |-> "doc", nav |-> nav, heading |-> heading, form |-> form,
     spans |-> spans, ver |-> ver, valid |-> valid,
     origin |-> "forum", members |-> {}, text |-> <<"g">>]

\* The documents the forum may answer a request with: for `get` itself any
\* navigation and content; for the edit page and the profile page of member
\* id, which are requested with login=True and parsed, one document for
\* each way the code can go: the parts a path never reads are fixed.
Docs(purpose, id) ==
    CASE purpose = "modcp" ->
           {Doc(<<MemberLink>>, TRUE, id, 1, v, TRUE) : v \in Vers}
           \cup {Doc(n, TRUE, id, 1, "v1", TRUE) :
                   n \in {<<>>, <<GuestLink>>, <<OtherLink>>}}
           \cup {Doc(<<MemberLink>>, FALSE, f, 1, "v1", TRUE) : f \in {0, id}}
           \cup {Doc(<<MemberLink>>, TRUE, f, 1, "v1", TRUE) :
                   f \in ({0} \cup Ids) \ {id}}
           \cup {Doc(<<MemberLink>>, TRUE, id, 1, "v1", FALSE)}
           \cup {[Doc(<<MemberLink>>, TRUE, id, 1, "v1", TRUE)
                     EXCEPT !.origin = "other"]}
      [] purpose = "group" ->
           {Doc(n, TRUE, 0, 1, "v1", TRUE) :
              n \in {<<>>, <<GuestLink>>, <<OtherLink>>}}
           \cup {Doc(<<MemberLink>>, TRUE, 0, s, "v1", TRUE) : s \in 0 .. 2}
      [] purpose = "members" ->
           {[Doc(<<GuestLink>>, TRUE, 0, 1, "v1", TRUE)
               EXCEPT !.members = S] : S \in SUBSET Ids}
      [] purpose = "shop" ->
           {Doc(<<GuestLink>>, TRUE, 0, 1, "v1", TRUE)}
      [] OTHER ->
           {Doc(n, TRUE, 0, 1, v, TRUE) : n \in Navs, v \in Vers}

Statuses == {"ok", "error"}

\* A response to a GET: its status (2xx or not) and its document.  The
\* document of a response that is not 2xx is never read: for the edit page
\* and the profile page one such response is enough.
GetResponses(purpose, id) ==
    IF purpose = "get" THEN [st : Statuses, doc : Docs(purpose, id)]
    ELSE [st : {"ok"}, doc : Docs(purpose, id)]
         \cup {[st |-> "error",
                doc |-> Doc(<<GuestLink>>, TRUE, 0, 1, "v1", TRUE)]}

\* A response to the login POST: its status and the cookies it sets.  A
\* response that is not 2xx sets none.
LoginResponses ==
    [st : {"ok"}, cookies : SUBSET Cookies]
    \cup {[st |-> "error", cookies |-> {}]}

\* The responses of a forum that works and knows the client's session.
ExpectedLogin(r) == r.st = "ok" /\ r.cookies = Cookies
ExpectedPage(purpose, id, r) ==
    /\ r.st = "ok"
    /\ purpose \in {"members", "shop"} \/ r.doc.nav = <<MemberLink>>
    /\ r.doc.heading /\ r.doc.valid /\ r.doc.spans = 1
    /\ r.doc.origin = "forum"
    /\ purpose = "modcp" => r.doc.form = id

\* dict.get(key, default) of a query.
QueryGet(q, key, default) == IF key \in DOMAIN q THEN q[key] ELSE default

(* ------------------------------ state --------------------------------- *)

\* Of a frame (one call of `get`), the program's part is pc (the await it is
\* suspended at), purpose, id, login, tries (backoff's counter), out and val
\* (what the task ends with) and creq, graced (the TaskGroup's cancellation).
\* The rest is history: the requests issued (gets, logins, relogins),
\* whether the call started with session cookies (cookies0), the GET
\* responses received (att, each with the try it answered), what each try
\* raised (raised, "none" for a return) and how the re-login ended (relog).
VARIABLES
    jar,      \* session.cookie_jar: the cookie names held for the forum
    now,      \* the monotonic clock read by the cache's timer
    cache,    \* character_cache: member id -> its entry (value, expiry) or none
    lru,      \* character_cache's key order, least recently used first
    op,       \* the client operation in progress
    fr,       \* the `get` calls of the operation: frame 1 and frame 2
    fetched,  \* history: per member, the last get_character that fetched it
    intact,   \* history: per member, that fetch's entry is still the one
              \* cached, neither evicted for room nor overwritten since
    budget    \* unexpected responses the forum may still give (-1: any number)

vars == <<jar, now, cache, lru, op, fr, fetched, intact, budget>>

IdleFrame ==
    [pc |-> "idle", purpose |-> "get", id |-> 0, login |-> FALSE,
     tries |-> 0, gets |-> 0, logins |-> 0, relogins |-> 0,
     cookies0 |-> FALSE, att |-> <<>>, raised |-> <<>>, relog |-> "none",
     out |-> "none", val |-> NoVal, creq |-> FALSE, graced |-> FALSE]

IdleOp ==
    [kind |-> "idle", pc |-> "idle", id |-> 0, cached |-> FALSE,
     arg |-> NoVal, t0 |-> 0, hit |-> FALSE, live0 |-> FALSE,
     out |-> "none", val |-> NoVal, errs |-> {}, posts |-> 0,
     resp |-> NoVal, cache0 |-> NoVal, lru0 |-> <<>>, body |-> NoVal,
     target |-> "none",
     outer |-> "none", todo |-> {}, caught |-> {}]

(* ------------------------- session and login -------------------------- *)

\* AstonishClient._has_session_cookies
HasSessionCookies(j) == ("session_id" \in j) /\ ("pass_hash" \in j)

\* A plausible slip: the success test reads the jar, not the response.
LoginOutcomeFromJar(r, j) ==
    IF r.st # "ok" THEN "ClientResponseError"
    ELSE IF "member_id" \notin (j \cup r.cookies) THEN "LoginFailedError"
    ELSE "ok"

\* AstonishClient.login, from the response on: raise_for_status(), then the
\* test of response.cookies.  j is the jar before the response.
LoginOutcome(r, j) ==
    IF r.st # "ok" THEN "ClientResponseError"
    ELSE IF "member_id" \notin r.cookies THEN "LoginFailedError"
    ELSE "ok"

\* A plausible slip: the id is compared with the number 0, which no string
\* equals, so every single link counts as a member's.
NavStatusIntCompare(doc) ==
    IF Len(doc.nav) # 1 THEN "error" ELSE "member"

\* AstonishClient._is_logged_in: "error" is the ValueError of unpacking
\* (a,) = doc.cssselect(...) when not exactly one link matches.
NavStatus(doc) ==
    IF Len(doc.nav) # 1 THEN "error"
    ELSE IF QueryGet(doc.nav[1], "showuser", "0") # "0" THEN "member"
    ELSE "guest"

(* --------------------------- record parsers --------------------------- *)

\* A plausible slip: the edit form is matched without looking at the origin
\* of its action URL.
ParseModcpFieldsAnyOrigin(doc) ==
    IF ~doc.heading
    THEN [out |-> "ValueError",
          val |-> [t |-> "exc", type |-> "ValueError",
                   msg |-> "Username not found"]]
    ELSE IF doc.form = 0
    THEN [out |-> "ElementNotFoundError",
          val |-> [t |-> "exc", type |-> "ElementNotFoundError",
                   msg |-> "form"]]
    ELSE [out |-> "ok",
          val |-> [t |-> "fields", id |-> doc.form, ver |-> doc.ver,
                   valid |-> doc.valid, origin |-> doc.origin]]

Exc(type, msg) == [t |-> "exc", type |-> type, msg |-> msg]

\* AstonishClient._parse_modcp_fields: the heading is looked for first, then
\* the edit form, which matches only with an action URL of the forum's
\* origin.  The result is the task's outcome and value.
ParseModcpFields(doc) ==
    IF ~doc.heading
    THEN [out |-> "ValueError", val |-> Exc("ValueError", "Username not found")]
    ELSE IF doc.form = 0 \/ doc.origin # "forum"
    THEN [out |-> "ElementNotFoundError",
          val |-> Exc("ElementNotFoundError", "form")]
    ELSE [out |-> "ok",
          val |-> [t |-> "fields", id |-> doc.form, ver |-> doc.ver,
                   valid |-> doc.valid, origin |-> doc.origin]]

\* str.strip() of the element's text.
RECURSIVE Strip(_)
Strip(s) ==
    IF s = <<>> THEN s
    ELSE IF Head(s) = " " THEN Strip(Tail(s))
    ELSE IF s[Len(s)] = " " THEN Strip(SubSeq(s, 1, Len(s) - 1))
    ELSE s

\* AstonishClient._parse_character_group: (span,) = doc.cssselect(...) is a
\* ValueError unless exactly one element matches.
ParseCharacterGroup(doc) ==
    IF doc.spans # 1
    THEN [out |-> "ValueError", val |-> Exc("ValueError", "unpack")]
    ELSE [out |-> "ok", val |-> [t |-> "group", text |-> Strip(doc.text)]]

(* ------------------------- the retrying `get` ------------------------- *)

Running(f) == f.pc \in {"body_login", "fetch", "relogin", "sleep"}

\* A plausible slip: the attempt logs in without looking at the cookies.
BeginAttemptNoCheck(f, j) ==
    IF f.login
    THEN [f EXCEPT !.pc = "body_login", !.logins = @ + 1]
    ELSE [f EXCEPT !.pc = "fetch", !.gets = @ + 1]

\* The start of one attempt of `get` (lines 276-279): log in first when no
\* session cookies are held, else issue the GET.
BeginAttempt(f, j) ==
    IF f.login /\ ~HasSessionCookies(j)
    THEN [f EXCEPT !.pc = "body_login", !.logins = @ + 1]
    ELSE [f EXCEPT !.pc = "fetch", !.gets = @ + 1]

\* A plausible slip: max_tries taken as the number of retries.
RaiseOffByOne(f, exc) ==
    IF exc = "LoginFailedError" /\ f.tries # max_tries + 1
    THEN [f EXCEPT !.pc = "relogin", !.logins = @ + 1, !.relogins = @ + 1,
                   !.raised = Append(@, exc)]
    ELSE [f EXCEPT !.pc = "done", !.out = exc, !.val = Exc(exc, "get"),
                   !.raised = Append(@, exc)]

\* backoff's retry loop on an exception raised by the attempt (lines
\* 262-268): a LoginFailedError below max_tries calls on_backoff, which
\* issues the login of _on_login_failed; anything else, or the last try,
\* is raised to the caller of `get`.
Raise(f, exc) ==
    IF exc = "LoginFailedError" /\ f.tries # max_tries
    THEN [f EXCEPT !.pc = "relogin", !.logins = @ + 1, !.relogins = @ + 1,
                   !.raised = Append(@, exc)]
    ELSE [f EXCEPT !.pc = "done", !.out = exc, !.val = Exc(exc, "get"),
                   !.raised = Append(@, exc)]

\* A plausible slip: the parser runs inside the retried function, and its
\* error is retried like a lost session.
FinishRetriesParse(f, doc) ==
    LET g == [f EXCEPT !.pc = "done", !.raised = Append(@, "none")]
        r == IF f.purpose = "modcp" THEN ParseModcpFields(doc)
             ELSE ParseCharacterGroup(doc)
    IN  IF f.purpose \notin {"modcp", "group"}
        THEN [g EXCEPT !.out = "ok", !.val = doc]
        ELSE IF r.out # "ok" THEN Raise(f, "LoginFailedError")
        ELSE [g EXCEPT !.out = r.out, !.val = r.val]

\* `get` returns doc to the coroutine that awaits it, which parses it in
\* the same segment (lines 185-186, 246-254).
Finish(f, doc) ==
    LET g == [f EXCEPT !.pc = "done", !.raised = Append(@, "none")] IN
    CASE f.purpose = "modcp" ->
           [g EXCEPT !.out = ParseModcpFields(doc).out,
                     !.val = ParseModcpFields(doc).val]
      [] f.purpose = "group" ->
           [g EXCEPT !.out = ParseCharacterGroup(doc).out,
                     !.val = ParseCharacterGroup(doc).val]
      [] OTHER -> [g EXCEPT !.out = "ok", !.val = doc]

\* A plausible slip: the logged-in marker is looked at whatever `login`.
AfterFetchAlwaysChecks(f, r) ==
    LET g == [f EXCEPT !.att = Append(@, [try |-> f.tries, st |-> r.st,
                                          doc |-> r.doc])] IN
    IF r.st # "ok" THEN Raise(g, "ClientResponseError")
    ELSE IF NavStatus(r.doc) = "error" THEN Raise(g, "ValueError")
    ELSE IF NavStatus(r.doc) = "guest" THEN Raise(g, "LoginFailedError")
    ELSE Finish(g, r.doc)

\* Lines 279-288, from the GET's response on.
AfterFetch(f, r) ==
    LET g == [f EXCEPT !.att = Append(@, [try |-> f.tries, st |-> r.st,
                                          doc |-> r.doc])] IN
    IF r.st # "ok" THEN Raise(g, "ClientResponseError")
    ELSE IF ~g.login THEN Finish(g, r.doc)
    ELSE IF NavStatus(r.doc) = "error" THEN Raise(g, "ValueError")
    ELSE IF NavStatus(r.doc) = "guest" THEN Raise(g, "LoginFailedError")
    ELSE Finish(g, r.doc)

\* Lines 276-279, from the response of the attempt's own login on.
AfterBodyLogin(f, r, j) ==
    IF LoginOutcome(r, j) = "ok"
    THEN [f EXCEPT !.pc = "fetch", !.gets = @ + 1]
    ELSE Raise(f, LoginOutcome(r, j))

\* _on_login_failed (lines 256-260), from the login's response on: an
\* exception of the handler leaves the retry loop, else backoff sleeps 0 s.
AfterRelogin(f, r, j) ==
    IF LoginOutcome(r, j) = "ok"
    THEN [f EXCEPT !.pc = "sleep", !.relog = "ok"]
    ELSE [f EXCEPT !.pc = "done", !.relog = LoginOutcome(r, j),
                   !.out = LoginOutcome(r, j),
                   !.val = Exc(LoginOutcome(r, j), "on_backoff")]

\* The call of `get`: backoff's first try.
CallGet(purpose, id, login, j) ==
    BeginAttempt([IdleFrame EXCEPT !.purpose = purpose, !.id = id,
                                   !.login = login, !.tries = 1,
                                   !.cookies0 = HasSessionCookies(j)], j)

\* After asyncio.sleep(0): backoff's next try.
AfterSleep(f, j) == BeginAttempt([f EXCEPT !.tries = @ + 1], j)

(* ------------------------- the character cache ------------------------ *)

NoFetch == [t |-> "none"]
NoEntry == [t |-> "none"]
Entry(v, expires) == [t |-> "entry", val |-> v, expires |-> expires]

\* The keys the cache holds, expired or not.
Keys(c) == {k \in Ids : c[k].t = "entry"}
Keep(l, S) == SelectSeq(l, LAMBDA x : x \in S)
MoveToEnd(l, k) == Append(SelectSeq(l, LAMBDA x : x # k), k)

\* TTLCache.expire(time): drops every entry with not (time < expires).
Expire(c, t) ==
    [k \in Ids |-> IF k \in Keys(c) /\ t < c[k].expires THEN c[k] ELSE NoEntry]

\* A plausible slip: a plain mapping's lookup, which never looks at expiry.
TTLCache_getitemNoExpiry(c, l, k, t) ==
    IF k \notin Keys(c) THEN [found |-> FALSE, val |-> NoVal, lru |-> l]
    ELSE [found |-> TRUE, val |-> c[k].val, lru |-> MoveToEnd(l, k)]

\* TTLCache.__getitem__ at time t as used by character_cache[memberid]
\* (line 155): the key moves to the recently-used end, and an absent or
\* expired key is the KeyError (found = FALSE) that suppress(KeyError) drops.
TTLCache_getitem(c, l, k, t) ==
    IF k \notin Keys(c) THEN [found |-> FALSE, val |-> NoVal, lru |-> l]
    ELSE IF ~(t < c[k].expires)
    THEN [found |-> FALSE, val |-> NoVal, lru |-> MoveToEnd(l, k)]
    ELSE [found |-> TRUE, val |-> c[k].val, lru |-> MoveToEnd(l, k)]

\* A plausible slip: a plain mapping's store, which never makes room.
TTLCache_setitemNoEvict(c, l, k, v, t) ==
    [cache |-> [x \in Ids |-> IF x = k THEN Entry(v, t + ttl) ELSE c[x]],
     lru |-> MoveToEnd(l, k),
     evicted |-> {}]

\* A plausible slip: the entry is stamped with the time of the write, without
\* the ttl, so it is expired as soon as it is written.
TTLCache_setitemNoTtl(c, l, k, v, t) ==
    LET c1 == Expire(c, t)
        l1 == Keep(l, Keys(c1))
        over == Cardinality(Keys(c1)) + 1 - maxsize
        n == IF k \notin Keys(c1) /\ over > 0 THEN over ELSE 0
        victims == {l1[i] : i \in 1 .. n}
        l2 == Keep(l1, Keys(c1) \ victims)
    IN  [cache |-> [x \in Ids |->
                      IF x = k THEN Entry(v, t)
                      ELSE IF x \in victims THEN NoEntry ELSE c1[x]],
         lru |-> MoveToEnd(l2, k),
         evicted |-> victims]

\* TTLCache.__setitem__ at time t as used by _update_in_cache (lines
\* 294-295): expired entries go, then for a new key the least recently used
\* entries are popped until there is room; the key is stamped t + ttl and
\* becomes the most recently used.
TTLCache_setitem(c, l, k, v, t) ==
    LET c1 == Expire(c, t)
        l1 == Keep(l, Keys(c1))
        over == Cardinality(Keys(c1)) + 1 - maxsize
        n == IF k \notin Keys(c1) /\ over > 0 THEN over ELSE 0
        victims == {l1[i] : i \in 1 .. n}
        l2 == Keep(l1, Keys(c1) \ victims)
    IN  [cache |-> [x \in Ids |->
                      IF x = k THEN Entry(v, t + ttl)
                      ELSE IF x \in victims THEN NoEntry ELSE c1[x]],
         lru |-> MoveToEnd(l2, k),
         evicted |-> victims]

Character(id, ver) == [t |-> "chara", id |-> id, ver |-> ver]
Characters == {Character(i, v) : i \in Ids, v \in Vers}

(* ------------------------------- Init --------------------------------- *)

\* AstonishClient.__init__ and the fresh aiohttp.ClientSession of
\* __aenter__: no cookies, an empty cache.  b is the forum's budget.
InitWith(b) ==
    /\ jar = {}
    /\ now = 0
    /\ cache = [i \in Ids |-> NoEntry]
    /\ lru = <<>>
    /\ op = IdleOp
    /\ fr = [t \in 1 .. 2 |-> IdleFrame]
    /\ fetched = [i \in Ids |-> NoFetch]
    /\ intact = [i \in Ids |-> FALSE]
    /\ budget = b

Init == InitWith(MaxFaults)

(* --------------------------- calling the client ----------------------- *)

\* The forum may give the response, and what is left of the budget after.
Allowed(expected) == expected \/ budget # 0
Spend(expected) == IF expected \/ budget < 0 THEN budget ELSE budget - 1

Idle == op.kind = "idle"

\* login() (lines 116-133): the POST is issued.
CallLogin ==
    /\ Idle
    /\ op' = [IdleOp EXCEPT !.kind = "login", !.pc = "login"]
    /\ UNCHANGED <<jar, now, cache, lru, fr, fetched, intact, budget>>

\* login() from the response on (lines 133-137).  The session stores the
\* cookies the response sets.
LoginResp ==
    /\ op.kind = "login" /\ op.pc = "login"
    /\ \E r \in LoginResponses :
         /\ Allowed(ExpectedLogin(r))
         /\ budget' = Spend(ExpectedLogin(r))
         /\ jar' = jar \cup r.cookies
         /\ op' = [op EXCEPT !.pc = "done", !.resp = r,
                             !.out = LoginOutcome(r, jar)]
    /\ UNCHANGED <<now, cache, lru, fr, fetched, intact>>

\* A call of get(login=...), as made by get_inventory (login=True) and by
\* get_all_characters and _get_shop_data (login=False).
CallGetOp ==
    /\ Idle
    /\ \E login \in BOOLEAN :
         /\ op' = [IdleOp EXCEPT !.kind = "get", !.pc = "running"]
         /\ fr' = [fr EXCEPT ![1] = CallGet("get", 0, login, jar)]
    /\ UNCHANGED <<jar, now, cache, lru, fetched, intact, budget>>

\* get_character(memberid, cached=...) up to its first await (lines
\* 153-161): the cache lookup, then the two tasks of the TaskGroup, which
\* both start before any response is handled.
CallGetCharacter ==
    /\ Idle
    /\ \E id \in Ids, cached \in BOOLEAN :
         LET g == TTLCache_getitem(cache, lru, id, now)
             o == [IdleOp EXCEPT !.kind = "get_character", !.id = id,
                                 !.cached = cached, !.t0 = now,
                                 !.cache0 = cache,
                                 !.live0 = (id \in Keys(cache)
                                            /\ now < cache[id].expires)]
         IN  IF cached /\ g.found
             THEN /\ op' = [o EXCEPT !.pc = "done", !.hit = TRUE,
                                     !.out = "ok", !.val = g.val]
                  /\ lru' = g.lru
                  /\ fr' = fr
             ELSE /\ op' = [o EXCEPT !.pc = "running"]
                  /\ lru' = IF cached THEN g.lru ELSE lru
                  /\ fr' = [fr EXCEPT
                              ![1] = CallGet("modcp", id, TRUE, jar),
                              ![2] = CallGet("group", id, TRUE, jar)]
    /\ UNCHANGED <<jar, now, cache, fetched, intact, budget>>

\* A plausible slip: the group is answered from the cached character.
CallGetCharacterGroupCached ==
    /\ Idle
    /\ \E id \in Ids :
         LET g == TTLCache_getitem(cache, lru, id, now)
             o == [IdleOp EXCEPT !.kind = "get_character_group", !.id = id,
                                 !.cache0 = cache, !.lru0 = lru]
         IN  IF g.found
             THEN /\ op' = [o EXCEPT !.pc = "done", !.out = "ok",
                                     !.val = [t |-> "group"]]
                  /\ lru' = g.lru
                  /\ fr' = fr
             ELSE /\ op' = [o EXCEPT !.pc = "running"]
                  /\ lru' = lru
                  /\ fr' = [fr EXCEPT ![1] = CallGet("group", id, TRUE, jar)]
    /\ UNCHANGED <<jar, now, cache, fetched, intact, budget>>

\* get_character_group(memberid) up to its first await (line 185).
CallGetCharacterGroup ==
    /\ Idle
    /\ \E id \in Ids :
         /\ op' = [IdleOp EXCEPT !.kind = "get_character_group",
                                 !.pc = "running", !.id = id,
                                 !.cache0 = cache, !.lru0 = lru]
         /\ fr' = [fr EXCEPT ![1] = CallGet("group", id, TRUE, jar)]
    /\ UNCHANGED <<jar, now, cache, lru, fetched, intact, budget>>

\* get_inventory(memberid) up to its first await (line 195).
CallGetInventory ==
    /\ Idle
    /\ \E id \in Ids :
         /\ op' = [IdleOp EXCEPT !.kind = "get_inventory",
                                 !.pc = "running", !.id = id,
                                 !.cache0 = cache, !.lru0 = lru]
         /\ fr' = [fr EXCEPT ![1] = CallGet("inventory", id, TRUE, jar)]
    /\ UNCHANGED <<jar, now, cache, lru, fetched, intact, budget>>

\* update_character(character) up to its first await (line 205).
CallUpdateCharacter ==
    /\ Idle
    /\ \E c \in Characters :
         /\ op' = [IdleOp EXCEPT !.kind = "update_character",
                                 !.pc = "running", !.id = c.id,
                                 !.arg = c, !.cache0 = cache]
         /\ fr' = [fr EXCEPT ![1] = CallGet("modcp", c.id, TRUE, jar)]
    /\ UNCHANGED <<jar, now, cache, lru, fetched, intact, budget>>

(* ----------------------- update_character's form --------------------- *)

\* dict(form.fields) of an edit form whose data has version ver: field_25
\* holds the personal computer's HTML, field_32 the extra JSON, and field_1
\* stands for every other field of the form.
FormFields(ver) ==
    [field_1 |-> <<"text", ver>>, field_25 |-> <<"html", ver>>,
     field_32 |-> <<"json", ver>>]

\* character.personal_computer.model_dump_html() and
\* character.extra.model_dump_json().
DumpHtml(c) == <<"html", c.ver>>
DumpJson(c) == <<"json", c.ver>>

\* A plausible slip: the whole body is built from the character.
PostBodyFromCharacter(fields, c) ==
    [field_1 |-> <<"text", c.ver>>, field_25 |-> DumpHtml(c),
     field_32 |-> DumpJson(c)]

\* Lines 205-207: the fetched fields with the two fields overridden.
PostBody(fields, c) ==
    [FormFields(fields.ver) EXCEPT !.field_25 = DumpHtml(c),
                                   !.field_32 = DumpJson(c)]

(* ------------------------ get_character's join ------------------------ *)

Failed(f) == f.pc = "done" /\ f.out \notin {"ok", "CancelledError"}

MemberNotFound == Exc("ValueError", "Member not found")

\* Lines 157-164: the TaskGroup raises the group of its tasks' exceptions
\* errs (not empty) and `except* ElementNotFoundError` handles the matching
\* part of it by raising ValueError.  With nothing left unhandled the
\* ValueError is raised bare; with a rest it is raised in a group with the
\* rest; with no match the TaskGroup's group propagates untouched.
ExceptStar(errs) ==
    LET enf == {e \in errs : e.type = "ElementNotFoundError"}
        rest == errs \ enf
    IN  IF enf = {}
        THEN [out |-> "ExceptionGroup", val |-> NoVal, errs |-> errs]
        ELSE IF rest = {}
        THEN [out |-> "ValueError", val |-> MemberNotFound, errs |-> {}]
        ELSE [out |-> "ExceptionGroup", val |-> NoVal,
              errs |-> {MemberNotFound} \cup rest]

\* A plausible slip: no id check (as when assertions are compiled out).
BuildCharacterNoAssert(fields, memberid) ==
    IF ~fields.valid
    THEN [out |-> "ValidationError", val |-> NoVal, errs |-> {}]
    ELSE [out |-> "ok", val |-> Character(fields.id, fields.ver),
          errs |-> {}]

\* Lines 166-176 with both tasks done: the id assertion, the validation,
\* then the character that is cached and returned.
BuildCharacter(fields, memberid) ==
    IF fields.id # memberid
    THEN [out |-> "AssertionError", val |-> NoVal, errs |-> {}]
    ELSE IF ~fields.valid
    THEN [out |-> "ValidationError", val |-> NoVal, errs |-> {}]
    ELSE [out |-> "ok", val |-> Character(fields.id, fields.ver),
          errs |-> {}]

(* ------------------------- steps of a `get` --------------------------- *)

\* A task the TaskGroup has cancelled gets the CancelledError at its await;
\* it runs one more segment only if its wake-up was already scheduled.
MayStep(t) == Running(fr[t]) /\ (~fr[t].creq \/ ~fr[t].graced)

\* A plausible slip: the two sub-fetches are awaited together without a
\* TaskGroup (as with asyncio.gather), so a failure cancels nothing.
AdvanceNoCancel(t, f2, j2, b2) ==
    LET g == [f2 EXCEPT !.graced = fr[t].creq] IN
    /\ jar' = j2
    /\ budget' = b2
    /\ fr' = [fr EXCEPT ![t] = g]
    /\ op' = IF op.kind = "get_character" \/ g.pc # "done" THEN op
             ELSE IF op.kind = "update_character" /\ g.out = "ok"
             THEN [op EXCEPT !.pc = "post", !.posts = @ + 1,
                             !.body = PostBody(g.val, op.arg),
                             !.target = g.val.origin]
             ELSE [op EXCEPT !.pc = "done", !.out = g.out, !.val = g.val]
    /\ UNCHANGED <<now, cache, lru, fetched, intact>>

\* Frame t has run a segment to f2 and the jar is j2: what the coroutine
\* awaiting the `get` does in the same segment.
Advance(t, f2, j2, b2) ==
    LET g == [f2 EXCEPT !.graced = fr[t].creq] IN
    /\ jar' = j2
    /\ budget' = b2
    /\ CASE op.kind = "get_character" ->
              \* TaskGroup: a failed task cancels the others (line 159).
              /\ fr' = [u \in 1 .. 2 |->
                          IF u = t THEN g
                          ELSE IF Failed(g) /\ Running(fr[u])
                          THEN [fr[u] EXCEPT !.creq = TRUE]
                          ELSE fr[u]]
              /\ op' = op
         [] op.kind = "update_character" ->
              \* Lines 205-212: with the fields, the origin of the action
              \* URL is asserted and the POST is issued.
              /\ fr' = [fr EXCEPT ![t] = g]
              /\ op' = IF g.pc # "done" THEN op
                       ELSE IF g.out # "ok"
                       THEN [op EXCEPT !.pc = "done", !.out = g.out,
                                       !.val = g.val]
                       ELSE IF g.val.origin # "forum"
                       THEN [op EXCEPT !.pc = "done",
                                       !.out = "AssertionError"]
                       ELSE [op EXCEPT !.pc = "post", !.posts = @ + 1,
                                       !.body = PostBody(g.val, op.arg),
                                       !.target = g.val.origin]
         [] OTHER ->
              /\ fr' = [fr EXCEPT ![t] = g]
              /\ op' = IF g.pc # "done" THEN op
                       ELSE [op EXCEPT !.pc = "done", !.out = g.out,
                                       !.val = g.val]
    /\ UNCHANGED <<now, cache, lru, fetched, intact>>

\* The response of the login issued at line 277.
BodyLoginResp(t) ==
    /\ MayStep(t) /\ fr[t].pc = "body_login"
    /\ \E r \in LoginResponses :
         /\ Allowed(ExpectedLogin(r))
         /\ Advance(t, AfterBodyLogin(fr[t], r, jar), jar \cup r.cookies,
                    Spend(ExpectedLogin(r)))

\* The response of the GET issued at line 279.
FetchResp(t) ==
    /\ MayStep(t) /\ fr[t].pc = "fetch"
    /\ \E r \in GetResponses(fr[t].purpose, fr[t].id) :
         /\ Allowed(ExpectedPage(fr[t].purpose, fr[t].id, r))
         /\ Advance(t, AfterFetch(fr[t], r), jar,
                    Spend(ExpectedPage(fr[t].purpose, fr[t].id, r)))

\* The response of the login issued by _on_login_failed (line 260).
ReloginResp(t) ==
    /\ MayStep(t) /\ fr[t].pc = "relogin"
    /\ \E r \in LoginResponses :
         /\ Allowed(ExpectedLogin(r))
         /\ Advance(t, AfterRelogin(fr[t], r, jar), jar \cup r.cookies,
                    Spend(ExpectedLogin(r)))

\* backoff's asyncio.sleep(0) ends and the next try starts.
Wake(t) ==
    /\ MayStep(t) /\ fr[t].pc = "sleep"
    /\ Advance(t, AfterSleep(fr[t], jar), jar, budget)

\* The CancelledError the TaskGroup sent reaches the task at its await.
Cancel(t) ==
    /\ Running(fr[t]) /\ fr[t].creq
    /\ fr' = [fr EXCEPT ![t] = [@ EXCEPT !.pc = "done",
                                         !.out = "CancelledError",
                                         !.val = Exc("CancelledError", "")]]
    /\ UNCHANGED <<jar, now, cache, lru, op, fetched, intact, budget>>

\* A plausible slip: the character is cached as soon as both tasks are
\* done, before the id assertion and the validation.
JoinCachesEarly ==
    /\ op.kind = "get_character" /\ op.pc = "running"
    /\ fr[1].pc = "done" /\ fr[2].pc = "done"
    /\ LET errs == {fr[t].val : t \in {u \in 1 .. 2 : Failed(fr[u])}}
           res == IF errs # {} THEN ExceptStar(errs)
                  ELSE BuildCharacter(fr[1].val, op.id)
           early == Character(fr[1].val.id, fr[1].val.ver)
           w == IF errs = {}
                THEN TTLCache_setitem(cache, lru, early.id, early, now)
                ELSE [cache |-> cache, lru |-> lru, evicted |-> {}]
       IN  /\ op' = [op EXCEPT !.pc = "done", !.out = res.out,
                               !.val = res.val, !.errs = res.errs]
           /\ cache' = w.cache
           /\ lru' = w.lru
           /\ UNCHANGED <<fetched, intact>>
    /\ UNCHANGED <<jar, now, fr, budget>>

\* get_character once both tasks are done (lines 159-176).
Join ==
    /\ op.kind = "get_character" /\ op.pc = "running"
    /\ fr[1].pc = "done" /\ fr[2].pc = "done"
    /\ LET errs == {fr[t].val : t \in {u \in 1 .. 2 : Failed(fr[u])}}
           res == IF errs # {} THEN ExceptStar(errs)
                  ELSE BuildCharacter(fr[1].val, op.id)
           w == IF res.out = "ok"
                THEN TTLCache_setitem(cache, lru, res.val.id, res.val, now)
                ELSE [cache |-> cache, lru |-> lru, evicted |-> {}]
       IN  /\ op' = [op EXCEPT !.pc = "done", !.out = res.out,
                               !.val = res.val, !.errs = res.errs]
           /\ IF res.out = "ok"
              THEN /\ cache' = w.cache
                   /\ lru' = w.lru
                   /\ fetched' = [fetched EXCEPT ![op.id] =
                                     [t |-> "f", val |-> res.val, at |-> now]]
                   /\ intact' = [i \in Ids |->
                                    \/ i = op.id
                                    \/ intact[i] /\ i \notin w.evicted]
              ELSE UNCHANGED <<cache, lru, fetched, intact>>
    /\ UNCHANGED <<jar, now, fr, budget>>

\* The caller cancels a get_character in flight: the TaskGroup cancels the
\* tasks still running and the CancelledError leaves get_character.
CancelCall ==
    /\ op.kind = "get_character" /\ op.pc = "running"
    /\ op' = [op EXCEPT !.pc = "done", !.out = "CancelledError",
                        !.val = Exc("CancelledError", "")]
    /\ fr' = [t \in 1 .. 2 |->
                IF Running(fr[t])
                THEN [fr[t] EXCEPT !.pc = "done", !.out = "CancelledError",
                                   !.val = Exc("CancelledError", "")]
                ELSE fr[t]]
    /\ UNCHANGED <<jar, now, cache, lru, fetched, intact, budget>>

\* A plausible slip: a failed POST is sent again, once.
PostRespRetry ==
    /\ op.kind = "update_character" /\ op.pc = "post"
    /\ \E st \in Statuses :
         LET w == TTLCache_setitem(cache, lru, op.arg.id, op.arg, now) IN
         /\ Allowed(st = "ok")
         /\ budget' = Spend(st = "ok")
         /\ IF st = "ok"
            THEN /\ op' = [op EXCEPT !.pc = "done", !.out = "ok",
                                     !.resp = [st |-> st]]
                 /\ cache' = w.cache
                 /\ lru' = w.lru
            ELSE /\ op' = IF op.posts < 2
                          THEN [op EXCEPT !.posts = @ + 1]
                          ELSE [op EXCEPT !.pc = "done",
                                          !.out = "ClientResponseError",
                                          !.resp = [st |-> st]]
                 /\ UNCHANGED <<cache, lru>>
    /\ UNCHANGED <<jar, now, fr, fetched, intact>>

\* A plausible slip: the cache is written whatever the POST's status.
PostRespWritesAlways ==
    /\ op.kind = "update_character" /\ op.pc = "post"
    /\ \E st \in Statuses :
         LET w == TTLCache_setitem(cache, lru, op.arg.id, op.arg, now) IN
         /\ Allowed(st = "ok")
         /\ budget' = Spend(st = "ok")
         /\ op' = [op EXCEPT !.pc = "done", !.resp = [st |-> st],
                             !.out = IF st = "ok" THEN "ok"
                                     ELSE "ClientResponseError"]
         /\ cache' = w.cache
         /\ lru' = w.lru
    /\ UNCHANGED <<jar, now, fr, fetched, intact>>

\* update_character from the POST's response on (lines 212-215).
PostResp ==
    /\ op.kind = "update_character" /\ op.pc = "post"
    /\ \E st \in Statuses :
         LET w == TTLCache_setitem(cache, lru, op.arg.id, op.arg, now) IN
         /\ Allowed(st = "ok")
         /\ budget' = Spend(st = "ok")
         /\ IF st = "ok"
            THEN /\ op' = [op EXCEPT !.pc = "done", !.out = "ok",
                                     !.resp = [st |-> st]]
                 /\ cache' = w.cache
                 /\ lru' = w.lru
                 /\ intact' = [i \in Ids |->
                                  /\ intact[i]
                                  /\ i # op.arg.id
                                  /\ i \notin w.evicted]
            ELSE /\ op' = [op EXCEPT !.pc = "done",
                                     !.out = "ClientResponseError",
                                     !.resp = [st |-> st]]
                 /\ UNCHANGED <<cache, lru, intact>>
    /\ UNCHANGED <<jar, now, fr, fetched>>

(* ------------------------------ startup ------------------------------- *)

\* __aenter__ up to its first await (lines 65-68): a new ClientSession,
\* whose cookie jar is empty, and the login POST is issued.
CallAenter ==
    /\ Idle
    /\ jar' = {}
    /\ op' = [IdleOp EXCEPT !.kind = "login", !.pc = "login",
                            !.outer = "aenter"]
    /\ UNCHANGED <<now, cache, lru, fr, fetched, intact, budget>>

\* __aenter__ goes on to the next character of the build (lines 73-75), or
\* after the last one to the shop data (line 88).  The get_character calls
\* of the build are taken one after the other, in any order.
AenterNext(todo, caught, c, l) ==
    /\ cache' = c
    /\ lru' = l
    /\ IF todo = {}
       THEN /\ op' = [IdleOp EXCEPT !.kind = "get", !.pc = "running",
                                    !.outer = "aenter", !.caught = caught]
            /\ fr' = [t \in 1 .. 2 |->
                        IF t = 1 THEN CallGet("shop", 0, FALSE, jar)
                        ELSE IdleFrame]
       ELSE \E id \in todo :
            /\ op' = [IdleOp EXCEPT !.kind = "get_character",
                                    !.pc = "running", !.id = id,
                                    !.t0 = now, !.cache0 = c,
                                    !.live0 = (id \in Keys(c)
                                               /\ now < c[id].expires),
                                    !.outer = "aenter",
                                    !.todo = todo \ {id},
                                    !.caught = caught]
            /\ fr' = [t \in 1 .. 2 |->
                        IF t = 1 THEN CallGet("modcp", id, TRUE, jar)
                        ELSE CallGet("group", id, TRUE, jar)]

\* __aenter__ ends: it returns the client or lets the exception through.
AenterEnd ==
    /\ op' = [op EXCEPT !.kind = "aenter", !.outer = "none"]
    /\ UNCHANGED <<cache, lru, fr>>

\* __aenter__ from the end of the call it awaits on (lines 68-88): after
\* the login the member list is requested; with the member list the build
\* starts; a get_character of the build that raised, whatever it raised,
\* is logged by `except BaseException` and one that returned is stored in
\* the cache once more; the shop data is the last request modelled.
AenterStep ==
    /\ op.outer = "aenter" /\ op.pc = "done"
    /\ CASE op.kind = "login" ->
              IF op.out # "ok" THEN AenterEnd
              ELSE /\ op' = [IdleOp EXCEPT !.kind = "get", !.pc = "running",
                                           !.outer = "aenter"]
                   /\ fr' = [fr EXCEPT
                               ![1] = CallGet("members", 0, FALSE, jar)]
                   /\ UNCHANGED <<cache, lru>>
         [] op.kind = "get" /\ fr[1].purpose = "members" ->
              IF op.out # "ok" THEN AenterEnd
              ELSE AenterNext(op.val.members, {}, cache, lru)
         [] op.kind = "get_character" ->
              IF op.out # "ok"
              THEN AenterNext(op.todo, op.caught \cup {op.out}, cache, lru)
              ELSE LET w == TTLCache_setitem(cache, lru, op.val.id, op.val,
                                             now)
                   IN  AenterNext(op.todo, op.caught, w.cache, w.lru)
         [] OTHER -> AenterEnd
    /\ UNCHANGED <<jar, now, fetched, intact, budget>>

\* The caller has the result; the client is ready for the next call.
Return ==
    /\ op.pc = "done" /\ op.outer = "none"
    /\ op' = IdleOp
    /\ fr' = [t \in 1 .. 2 |-> IdleFrame]
    /\ UNCHANGED <<jar, now, cache, lru, fetched, intact, budget>>

\* The monotonic clock advances.  Only the cache reads the clock, and it is
\* used in the first segment of a call and in the last one: the time that
\* passes during a call is the time that passes before and after it.
Tick ==
    /\ Idle
    /\ now < MaxTime
    /\ now' = now + 1
    /\ UNCHANGED <<jar, cache, lru, op, fr, fetched, intact, budget>>

Next ==
    \/ CallLogin
    \/ LoginResp
    \/ CallGetOp
    \/ CallGetCharacter
    \/ CallGetCharacterGroup
    \/ CallGetInventory
    \/ CallUpdateCharacter
    \/ \E t \in 1 .. 2 : BodyLoginResp(t)
    \/ \E t \in 1 .. 2 : FetchResp(t)
    \/ \E t \in 1 .. 2 : ReloginResp(t)
    \/ \E t \in 1 .. 2 : Wake(t)
    \/ \E t \in 1 .. 2 : Cancel(t)
    \/ Join
    \/ CancelCall
    \/ PostResp
    \/ CallAenter
    \/ AenterStep
    \/ Return
    \/ Tick

Spec == Init /\ [][Next]_vars

\* The session and `get` alone: login() and calls of get(login=...).
NextGet ==
    \/ CallLogin
    \/ LoginResp
    \/ CallGetOp
    \/ BodyLoginResp(1)
    \/ FetchResp(1)
    \/ ReloginResp(1)
    \/ Wake(1)
    \/ Return

\* For the session and `get` alone the forum is not limited.
InitGet == InitWith(-1)

SpecGet == InitGet /\ [][NextGet]_vars

\* Every request ends: the ClientSession's timeout ends a request that gets
\* no response with an exception, which is one of the responses above, and
\* the event loop runs a coroutine that is ready.
SpecGetFair ==
    /\ SpecGet
    /\ WF_vars(BodyLoginResp(1))
    /\ WF_vars(FetchResp(1))
    /\ WF_vars(ReloginResp(1))
    /\ WF_vars(Wake(1))

\* get_character after login(), with a forum of limited faults and a clock
\* that stands still.
NextJoin ==
    \/ CallLogin
    \/ LoginResp
    \/ CallGetCharacter
    \/ \E t \in 1 .. 2 : BodyLoginResp(t)
    \/ \E t \in 1 .. 2 : FetchResp(t)
    \/ \E t \in 1 .. 2 : ReloginResp(t)
    \/ \E t \in 1 .. 2 : Wake(t)
    \/ \E t \in 1 .. 2 : Cancel(t)
    \/ Join
    \/ CancelCall
    \/ Return

SpecJoin == Init /\ [][NextJoin]_vars

\* One call of get_character on a new client, which logs in when a `get`
\* finds no session cookies, up to the call's end.
NextFetch ==
    \/ CallGetCharacter
    \/ \E t \in 1 .. 2 : BodyLoginResp(t)
    \/ \E t \in 1 .. 2 : FetchResp(t)
    \/ \E t \in 1 .. 2 : ReloginResp(t)
    \/ \E t \in 1 .. 2 : Wake(t)
    \/ \E t \in 1 .. 2 : Cancel(t)
    \/ Join
    \/ CancelCall

SpecFetch == Init /\ [][NextFetch]_vars

\* Every request ends, a cancellation that was sent arrives, and the event
\* loop runs get_character once its tasks are done.
SpecFetchFair ==
    /\ SpecFetch
    /\ \A t \in 1 .. 2 :
         /\ WF_vars(BodyLoginResp(t))
         /\ WF_vars(FetchResp(t))
         /\ WF_vars(ReloginResp(t))
         /\ WF_vars(Wake(t))
         /\ WF_vars(Cancel(t))
    /\ WF_vars(Join)

\* The cache over time: get_character and update_character after login(),
\* with a forum that gives the expected responses.
NextCache ==
    \/ CallLogin
    \/ LoginResp
    \/ CallGetCharacter
    \/ CallUpdateCharacter
    \/ \E t \in 1 .. 2 : BodyLoginResp(t)
    \/ \E t \in 1 .. 2 : FetchResp(t)
    \/ Join
    \/ PostResp
    \/ Return
    \/ Tick

InitCache == InitWith(0)

\* The cache over time with the startup: __aenter__, get_character and
\* update_character, with a forum that gives the expected responses.  The
\* client is entered before it is used, so the startup is at time 0.
NextLife ==
    \/ now = 0 /\ CallAenter
    \/ AenterStep
    \/ LoginResp
    \/ CallGetCharacter
    \/ CallUpdateCharacter
    \/ \E t \in 1 .. 2 : FetchResp(t)
    \/ Join
    \/ PostResp
    \/ Return
    \/ Tick

SpecLife == InitCache /\ [][NextLife]_vars

\* update_character after login(), with a forum of limited faults and a
\* clock that stands still.
NextUpdate ==
    \/ CallLogin
    \/ LoginResp
    \/ CallUpdateCharacter
    \/ BodyLoginResp(1)
    \/ FetchResp(1)
    \/ ReloginResp(1)
    \/ Wake(1)
    \/ PostResp
    \/ Return

SpecUpdate == Init /\ [][NextUpdate]_vars

\* The startup of the client, __aenter__, with a forum of limited faults.
NextStartup ==
    \/ CallAenter
    \/ LoginResp
    \/ \E t \in 1 .. 2 : BodyLoginResp(t)
    \/ \E t \in 1 .. 2 : FetchResp(t)
    \/ \E t \in 1 .. 2 : ReloginResp(t)
    \/ \E t \in 1 .. 2 : Wake(t)
    \/ \E t \in 1 .. 2 : Cancel(t)
    \/ Join
    \/ AenterStep
    \/ Return

SpecStartup == Init /\ [][NextStartup]_vars

\* The reads that go past the cache, get_character_group and
\* get_inventory, on a client whose cache update_character fills.
NextReads ==
    \/ CallLogin
    \/ LoginResp
    \/ CallUpdateCharacter
    \/ CallGetCharacterGroup
    \/ CallGetInventory
    \/ BodyLoginResp(1)
    \/ FetchResp(1)
    \/ ReloginResp(1)
    \/ Wake(1)
    \/ PostResp
    \/ Return

SpecReads == Init /\ [][NextReads]_vars

SpecCache == InitCache /\ [][NextCache]_vars

(* ---------------------- properties of `get` and login ----------------- *)

\* What a document shows in its navigation: the one profile link with
\* showuser=0 (the guest), or with another member id.
GuestDoc(doc) ==
    /\ Len(doc.nav) = 1
    /\ "showuser" \in DOMAIN doc.nav[1]
    /\ doc.nav[1].showuser = "0"
MemberDoc(doc) ==
    /\ Len(doc.nav) = 1
    /\ "showuser" \in DOMAIN doc.nav[1]
    /\ doc.nav[1].showuser # "0"

\* A call of get(login=True) made on its own, and one that has ended.
InGet == op.kind = "get" /\ fr[1].login
GetDone == InGet /\ fr[1].pc = "done"

\* The i-th GET response of the call is a 2xx one showing the guest / a member.
ShowsGuest(i) ==
    /\ i <= Len(fr[1].att)
    /\ fr[1].att[i].st = "ok" /\ GuestDoc(fr[1].att[i].doc)
ShowsMember(i) ==
    /\ i <= Len(fr[1].att)
    /\ fr[1].att[i].st = "ok" /\ MemberDoc(fr[1].att[i].doc)

\* C1's case: the call started with session cookies, its first GET response
\* showed the guest, the re-login succeeded, and the response of the
\* replayed GET, if there is one, showed a member.
RetrySuccessCase ==
    /\ GetDone /\ fr[1].cookies0
    /\ ShowsGuest(1)
    /\ fr[1].relog = "ok"
    /\ Len(fr[1].att) >= 2 => ShowsMember(2)

NeverRecoversCase ==
    /\ GetDone /\ fr[1].cookies0
    /\ \A i \in 1 .. Len(fr[1].att) : ShowsGuest(i)

C3_Original == InGet => fr[1].logins <= 1

\* C3 amended: one call of get(login=True) submits the login request at
\* most three times: at most once at the start of each of its at most two
\* attempts, and there only while the session cookies are missing, and at
\* most once as the re-login between the two attempts.
C3_LoginBounded ==
    InGet =>
        /\ fr[1].logins <= 3
        /\ fr[1].relogins <= 1
        /\ fr[1].logins - fr[1].relogins <= fr[1].tries
        /\ fr[1].tries <= 2
        /\ fr[1].pc = "body_login" => ~HasSessionCookies(jar)

C3_Witness == GetDone /\ fr[1].logins = 3

\* C4: bounded retry.  Whatever the forum returns, a call of get issues at
\* most two GET requests and retries at most once, and every call that is
\* running eventually has returned or raised.
C4_BoundedRetry ==
    /\ [](op.kind = "get" =>
            /\ fr[1].gets <= 2
            /\ fr[1].tries <= 2
            /\ fr[1].relogins <= 1)
    /\ ((op.kind = "get" /\ op.pc = "running")
          ~> (op.kind = "get" /\ op.pc = "done"))

C4_Witness ==
    /\ op.kind = "get" /\ op.pc = "done"
    /\ fr[1].gets = 2 /\ fr[1].tries = 2

\* What the try that GET response i answered ended with.
RaisedBy(i) == fr[1].raised[fr[1].att[i].try]

\* C5 as stated: get(login=True) never returns a document whose profile
\* link carries showuser=0; a response with such a document leads to
\* LoginFailedError whatever its HTTP status; a document whose link carries
\* another member id is not taken for a lost session.
C5_Original ==
    InGet =>
        /\ fr[1].out = "ok" => ~GuestDoc(fr[1].val)
        /\ \A i \in 1 .. Len(fr[1].att) :
              /\ GuestDoc(fr[1].att[i].doc) =>
                    RaisedBy(i) = "LoginFailedError"
              /\ MemberDoc(fr[1].att[i].doc) =>
                    RaisedBy(i) # "LoginFailedError"

\* C5 amended: get(login=True) never returns a document whose profile link
\* carries showuser=0; a 2xx response with such a document leads to
\* LoginFailedError, with session cookies or without; a 2xx response whose
\* link carries another member id is returned; a response that is not 2xx
\* raises ClientResponseError whatever its document shows.
C5_SessionLossByContent ==
    InGet =>
        /\ fr[1].out = "ok" => ~GuestDoc(fr[1].val)
        /\ \A i \in 1 .. Len(fr[1].att) :
              /\ ShowsGuest(i) => RaisedBy(i) = "LoginFailedError"
              /\ ShowsMember(i) =>
                    /\ RaisedBy(i) = "none"
                    /\ i = Len(fr[1].att)
                    /\ fr[1].out = "ok" /\ fr[1].val = fr[1].att[i].doc
              /\ fr[1].att[i].st # "ok" =>
                    RaisedBy(i) = "ClientResponseError"

C5_Witness ==
    /\ GetDone /\ ~fr[1].cookies0 /\ Len(fr[1].att) = 2
    /\ ShowsGuest(1) /\ ShowsGuest(2)
    /\ op.out = "LoginFailedError"

\* C6: login() succeeds exactly when its response is 2xx and sets the
\* member_id cookie; a 2xx response that does not set it makes login()
\* raise LoginFailedError, whatever cookies the jar holds.
C6_LoginSuccess ==
    (op.kind = "login" /\ op.pc = "done") =>
        /\ op.out = "ok" <=>
              (op.resp.st = "ok" /\ "member_id" \in op.resp.cookies)
        /\ (op.resp.st = "ok" /\ "member_id" \notin op.resp.cookies) =>
              op.out = "LoginFailedError"

C6_Witness ==
    /\ op.kind = "login" /\ op.pc = "done"
    /\ "member_id" \in jar
    /\ op.resp.st = "ok" /\ "member_id" \notin op.resp.cookies
    /\ op.out = "LoginFailedError"

(* ------------------- properties of get_character --------------------- *)

\* C7's case: the two sub-fetches of one get_character both started with
\* session cookies, both saw the guest in their first GET response, and
\* both are at the re-login that followed.
BothSawLostSession ==
    /\ op.kind = "get_character"
    /\ \A t \in 1 .. 2 :
         /\ fr[t].cookies0 /\ fr[t].pc = "relogin"
         /\ Len(fr[t].att) = 1
         /\ fr[t].att[1].st = "ok" /\ GuestDoc(fr[t].att[1].doc)

\* C7 as stated: when two concurrent get(login=True) calls of one client
\* both observe the same lost session, the login request is submitted only
\* once in total.
C7_SingleRecovery ==
    BothSawLostSession => fr[1].logins + fr[2].logins <= 1

\* Both re-logins are submitted.
C7_Witness == BothSawLostSession /\ fr[1].logins + fr[2].logins = 2

\* C10's case: get_character has ended, and the edit page its `get`
\* returned has no matching edit form.
NoEditForm ==
    /\ op.kind = "get_character" /\ op.pc = "done" /\ ~op.hit
    /\ Len(fr[1].att) >= 1
    /\ LET a == fr[1].att[Len(fr[1].att)] IN
         /\ fr[1].raised[a.try] = "none"
         /\ a.doc.form = 0

\* C10 as stated: whenever the fetched edit page has no matching edit form,
\* get_character fails with the bare ValueError 'Member not found' (which
\* the command layer turns into CharacterNotFoundError) and with no other
\* error.
C10_MemberNotFound ==
    NoEditForm => (op.out = "ValueError" /\ op.val = MemberNotFound)

\* The page has neither the heading nor the form: the error is a group.
C10_Witness ==
    /\ NoEditForm /\ op.out = "ExceptionGroup"
    /\ op.errs = {Exc("ValueError", "Username not found")}

InChar == op.kind = "get_character"
CharFailed == InChar /\ op.pc = "done" /\ op.out # "ok"

\* C11's case: both sub-fetches succeeded, the edit form's action URL
\* carries another member id than the requested one, and the caller has not
\* cancelled the call before get_character ran on.
IdMismatch ==
    /\ InChar /\ op.pc = "done" /\ ~op.hit
    /\ op.out # "CancelledError"
    /\ fr[1].out = "ok" /\ fr[2].out = "ok"
    /\ fr[1].val.id # op.id

\* C11: identity.  get_character(id) returns only a Character with that
\* id, the only cache entry it writes is one for id holding a Character with
\* that id, and when the id in the edit form's action URL differs from the
\* requested one the call ends with the AssertionError (or, cancelled by its
\* caller, with the CancelledError) and the cache untouched.
C11_Identity ==
    InChar =>
        /\ (op.pc = "done" /\ op.out = "ok") =>
              (op.val.t = "chara" /\ op.val.id = op.id)
        /\ \A k \in Ids :
              (cache[k].t = "entry" /\ cache[k] # op.cache0[k]) =>
                  (k = op.id /\ cache[k].val.id = op.id)
        /\ IdMismatch => (op.out = "AssertionError" /\ cache = op.cache0)
        /\ (op.pc = "done" /\ op.out = "CancelledError") =>
              cache = op.cache0

C11_Witness ==
    IdMismatch /\ op.out = "AssertionError" /\ Keys(cache) # {}

\* C12: the cache is written only after full success.  While a
\* get_character is in flight, and after it has raised for whatever reason
\* or was cancelled, the cache holds the keys and values it held before
\* the call.
C12_CacheUntouchedOnFailure ==
    (InChar /\ (op.pc = "running" \/ CharFailed)) => cache = op.cache0

C12_Witness ==
    /\ CharFailed /\ op.out = "ValidationError"
    /\ Keys(cache) # {}

\* One of the two sub-fetches has failed.
SubFetchFailed == InChar /\ \E t \in 1 .. 2 : Failed(fr[t])
NoneRunning == \A t \in 1 .. 2 : ~Running(fr[t])

\* C13: fail-fast join.  When one of the two sub-fetches of get_character
\* fails, the other, if still running, is sent the cancellation and runs at
\* most the segment that was already scheduled; get_character never returns
\* a value then; and eventually get_character has raised with neither
\* sub-fetch running.
C13_FailFast ==
    /\ [](SubFetchFailed =>
            /\ \A t \in 1 .. 2 : Running(fr[t]) => fr[t].creq
            /\ op.pc = "done" => (op.out # "ok" /\ NoneRunning))
    /\ [][\A t \in 1 .. 2 :
            (Running(fr[t]) /\ fr[t].creq /\ fr[t].graced) =>
                (fr'[t] = fr[t] \/ fr'[t].out = "CancelledError")]_vars
    /\ (SubFetchFailed ~> (CharFailed /\ NoneRunning))

C13_Witness ==
    /\ CharFailed /\ NoneRunning
    /\ Failed(fr[2]) /\ fr[1].out = "CancelledError" /\ fr[1].graced

(* ----------------------- properties of the cache ---------------------- *)

\* The HTTP requests the operation in progress has issued.
Http ==
    fr[1].gets + fr[1].logins + fr[2].gets + fr[2].logins + op.posts

InCached == op.kind = "get_character" /\ op.cached

\* C8: get_character(id, cached=True) fetches if and only if the cache holds
\* no live entry for id at the call: with a live entry it returns that
\* entry's value at once with no HTTP request; with no entry or an expired
\* one the lookup raises nothing and the fetch is made.
C8_FetchIffNoLiveEntry ==
    InCached =>
        /\ op.live0 =>
              /\ op.hit /\ op.pc = "done" /\ op.out = "ok"
              /\ op.val = cache[op.id].val
              /\ Http = 0
        /\ ~op.live0 =>
              /\ ~op.hit
              /\ op.out # "KeyError"
              /\ fr[1].gets + fr[1].logins >= 1
              /\ fr[2].gets + fr[2].logins >= 1

C8_Witness ==
    /\ InCached /\ op.pc = "running"
    /\ op.id \in Keys(cache) /\ ~(now < cache[op.id].expires)
    /\ Http = 2

\* The cached call in progress follows a get_character of the same member
\* that fetched; it is looked at before its own fetch, if it makes one, ends.
AfterFetched ==
    /\ InCached
    /\ fetched[op.id].t = "f"
    /\ op.hit \/ op.pc = "running"
WithinTtl == op.t0 < fetched[op.id].at + ttl

\* C9 as stated: after get_character(id) succeeds, every
\* get_character(id, cached=True) made before the TTL elapses returns the
\* same record without a fetch, whatever client operations happened in
\* between; once the TTL has elapsed the call fetches again.
C9_Original ==
    AfterFetched =>
        /\ WithinTtl =>
              (op.hit /\ op.val = fetched[op.id].val /\ Http = 0)
        /\ ~WithinTtl => (~op.hit /\ Http > 0)

\* C9 amended: the same, provided that since that fetch no update_character
\* of id has overwritten the entry and no cache write for another member
\* has evicted it for room.
C9_CacheLifetime ==
    (AfterFetched /\ intact[op.id]) =>
        /\ WithinTtl =>
              (op.hit /\ op.val = fetched[op.id].val /\ Http = 0)
        /\ ~WithinTtl => (~op.hit /\ Http > 0)

C9_Witness ==
    /\ AfterFetched /\ intact[op.id] /\ WithinTtl
    /\ op.hit /\ op.t0 > fetched[op.id].at

(* -------------------- properties of update_character ----------------- *)

InUpdate == op.kind = "update_character"
UpdateOk == InUpdate /\ op.pc = "done" /\ op.out = "ok"

\* The edit page that the `get` of this update_character returned, if any.
PageReturned ==
    /\ InUpdate
    /\ fr[1].raised # <<>>
    /\ fr[1].raised[Len(fr[1].raised)] = "none"
EditPage == fr[1].att[Len(fr[1].att)].doc

\* C14: the body update_character POSTs is the field set of the edit page
\* fetched inside the same call, key for key, with field_25 replaced by the
\* personal computer's HTML and field_32 by the extra JSON of the character
\* passed in; every other field keeps the value just fetched.
C14_WholeFormResubmitted ==
    (InUpdate /\ op.posts >= 1) =>
        /\ PageReturned
        /\ DOMAIN op.body = DOMAIN FormFields(EditPage.ver)
        /\ \A k \in DOMAIN op.body :
              op.body[k] = CASE k = "field_25" -> DumpHtml(op.arg)
                             [] k = "field_32" -> DumpJson(op.arg)
                             [] OTHER -> FormFields(EditPage.ver)[k]

C14_Witness ==
    /\ InUpdate /\ op.posts = 1 /\ PageReturned
    /\ EditPage.ver # op.arg.ver
    /\ Len(fr[1].att) = 2

\* C15: update_character never POSTs to a URL of another origin than the
\* forum's.  An edit page whose form's action URL has another origin ends
\* the call with ElementNotFoundError (the form does not match) before any
\* POST is issued and with the cache as it was.
C15_PostStaysOnForum ==
    InUpdate =>
        /\ op.posts >= 1 => op.target = "forum"
        /\ (PageReturned /\ EditPage.heading /\ EditPage.origin # "forum") =>
              /\ op.pc = "done" /\ op.out = "ElementNotFoundError"
              /\ op.posts = 0
              /\ cache = op.cache0

C15_Witness ==
    /\ InUpdate /\ PageReturned /\ EditPage.origin = "other"
    /\ op.pc = "done" /\ Keys(cache) # {}

\* C16: one call of update_character issues the POST at most once.  Once
\* the POST is issued the call's `get` has ended, so no GET and no login
\* follows; a POST that fails ends the call with ClientResponseError; only
\* the GET of the edit page is retried, at most once.
C16_NoRetryOfPost ==
    InUpdate =>
        /\ op.posts <= 1
        /\ fr[1].gets <= 2 /\ fr[1].relogins <= 1
        /\ op.posts = 1 => (fr[1].pc = "done" /\ fr[1].out = "ok")
        /\ (op.pc = "done" /\ op.posts = 1 /\ op.resp.st # "ok") =>
              op.out = "ClientResponseError"

C16_Witness ==
    /\ InUpdate /\ op.pc = "done" /\ op.posts = 1
    /\ op.resp.st = "error" /\ fr[1].gets = 2

\* C17: write-through.  When update_character(c) has returned, the POST
\* was answered 2xx and the lookup that get_character(c.id, cached=True)
\* makes finds c; until then, and when the call fails, the cache is as it
\* was before the call.
C17_WriteThrough ==
    InUpdate =>
        /\ UpdateOk =>
              /\ op.posts = 1 /\ op.resp.st = "ok"
              /\ TTLCache_getitem(cache, lru, op.arg.id, now).found
              /\ TTLCache_getitem(cache, lru, op.arg.id, now).val = op.arg
        /\ ~UpdateOk => cache = op.cache0

C17_Witness ==
    /\ UpdateOk
    /\ op.cache0[op.arg.id].t = "entry"
    /\ op.cache0[op.arg.id].val # op.arg

(* ------------------- properties of the uncached reads ----------------- *)

InRead == op.kind \in {"get_character_group", "get_inventory"}

\* C18 as stated: get_character_group and get_inventory neither read nor
\* write the character cache, whether they succeed or fail, and each call
\* always issues a GET.
C18_Original ==
    InRead =>
        /\ cache = op.cache0 /\ lru = op.lru0
        /\ op.pc = "done" => fr[1].gets >= 1

\* C18 amended: get_character_group and get_inventory neither read nor
\* write the character cache, whether they succeed or fail; a call that
\* returns has issued a GET in that call and returns what its last response
\* holds; the only call that ends without any GET is one that found no
\* session cookies and failed at the login before its first GET.
C18_ReadsPastCache ==
    InRead =>
        /\ cache = op.cache0 /\ lru = op.lru0
        /\ (op.pc = "done" /\ op.out = "ok") =>
              /\ fr[1].gets >= 1
              /\ fr[1].att[Len(fr[1].att)].st = "ok"
              /\ op.kind = "get_inventory" =>
                    op.val = fr[1].att[Len(fr[1].att)].doc
        /\ (op.pc = "done" /\ fr[1].gets = 0) =>
              /\ ~fr[1].cookies0
              /\ fr[1].logins >= 1
              /\ op.out \in {"LoginFailedError", "ClientResponseError"}

C18_Witness ==
    /\ InRead /\ op.pc = "done" /\ op.out = "ok"
    /\ op.id \in Keys(cache)
    /\ fr[1].gets = 2

\* C19's case: a call of get(login=False), as get_all_characters and the
\* shop-catalog fetch make.
InAnonGet == op.kind = "get" /\ ~fr[1].login

\* C19: unauthenticated reads stay unauthenticated.  Whatever cookies the
\* jar holds, a get(login=False) submits no login request, makes one try
\* with one GET, never raises LoginFailedError, and returns the document of
\* any 2xx response without looking at its logged-in marker.
C19_AnonymousReads ==
    InAnonGet =>
        /\ fr[1].logins = 0 /\ fr[1].relogins = 0
        /\ fr[1].tries = 1 /\ fr[1].gets = 1
        /\ fr[1].out # "LoginFailedError"
        /\ \A i \in 1 .. Len(fr[1].raised) :
              fr[1].raised[i] # "LoginFailedError"
        /\ (Len(fr[1].att) = 1 /\ fr[1].att[1].st = "ok") =>
              (op.out = "ok" /\ op.val = fr[1].att[1].doc)

C19_Witness ==
    /\ InAnonGet /\ op.pc = "done" /\ op.out = "ok"
    /\ GuestDoc(op.val) /\ HasSessionCookies(jar)

(* ------------------------ properties of startup ---------------------- *)

InStartup == op.outer = "aenter" \/ op.kind = "aenter"

\* C20 as stated: an id-mismatch or origin-mismatch assertion failure of
\* get_character or update_character is never caught, in no code path of
\* the client, the cache build of __aenter__ included: it reaches the caller.
C20_AssertionPropagates ==
    InStartup => "AssertionError" \notin op.caught

\* The build has swallowed the assertion failure and __aenter__ returns.
C20_Witness ==
    /\ op.kind = "aenter" /\ op.pc = "done" /\ op.out = "ok"
    /\ "AssertionError" \in op.caught

(* ----------------------- properties of the parsers ------------------- *)

\* The parser the operation in progress runs on the page its `get` returns.
ParserOf(doc) ==
    IF fr[1].purpose = "modcp" THEN ParseModcpFields(doc)
    ELSE ParseCharacterGroup(doc)

InParsed == op.kind \in {"update_character", "get_character_group"}

\* GET response i of the operation is a 2xx page of a logged-in member on
\* which the record parser raises.
ParseFails(i) ==
    /\ fr[1].att[i].st = "ok"
    /\ NavStatus(fr[1].att[i].doc) = "member"
    /\ ParserOf(fr[1].att[i].doc).out # "ok"

\* C21: structural parse errors are not retried.  When a GET has returned
\* the page of a logged-in member and the record parser raises on it, that
\* response is the last one of the operation: its `get` has ended, nothing
\* is requested after it (no GET, no login, no POST) and the operation has
\* raised the parser's error.
C21_ParseErrorNotRetried ==
    InParsed =>
        \A i \in 1 .. Len(fr[1].att) :
            ParseFails(i) =>
                /\ i = Len(fr[1].att)
                /\ fr[1].pc = "done"
                /\ fr[1].gets = Len(fr[1].att)
                /\ fr[1].out = ParserOf(fr[1].att[i].doc).out
                /\ op.pc = "done"
                /\ op.out = fr[1].out /\ op.val = fr[1].val
                /\ op.posts = 0

C21_Witness ==
    /\ InParsed /\ Len(fr[1].att) = 1 /\ ParseFails(1)
    /\ fr[1].tries = 1
    /\ op.out = "ElementNotFoundError"

\* C22: bounded cache.  Whatever get_character, update_character and the
\* startup's cache build have done, the cache holds at most maxsize
\* entries, expired ones counted, and a cached get_character that is
\* answered from the cache is answered with an entry whose time-to-live
\* had not elapsed at the call.
C22_BoundedCache ==
    /\ Cardinality(Keys(cache)) <= maxsize
    /\ Len(lru) = Cardinality(Keys(cache))
    /\ (op.kind = "get_character" /\ op.hit) =>
          /\ op.id \in Keys(cache)
          /\ op.t0 < cache[op.id].expires
          /\ cache[op.id].expires <= op.t0 + ttl

C22_Witness ==
    /\ op.outer = "aenter" /\ op.kind = "get"
    /\ fr[1].purpose = "shop"
    /\ Cardinality(Keys(cache)) = maxsize
    /\ Cardinality(Keys(cache)) < Cardinality(Ids)
    /\ op.caught = {}

(* =========================== astonish/models.py ======================= *)

\* The calls of this part are functions of their arguments; `op` holds the
\* call in progress and every other variable stays as the constructor left
\* it.
PureInit(o) ==
    /\ jar = {}
    /\ now = 0
    /\ cache = [i \in Ids |-> NoEntry]
    /\ lru = <<>>
    /\ op = o
    /\ fr = [t \in 1 .. 2 |-> IdleFrame]
    /\ fetched = [i \in Ids |-> NoFetch]
    /\ intact = [i \in Ids |-> FALSE]
    /\ budget = 0

PureStep(o) ==
    /\ op' = o
    /\ UNCHANGED <<jar, now, cache, lru, fr, fetched, intact, budget>>

\* A call that raises: its outcome is the exception's type.
Raises(type, msg) == [out |-> type, val |-> Exc(type, msg)]

\* All sequences over S of length at most n.
SeqsUpTo(S, n) == UNION {[1 .. k -> S] : k \in 0 .. n}

(* ---- text ---- *)

DigitChars == <<"0", "1", "2", "3", "4", "5", "6", "7", "8", "9">>
DigitVal(c) == CHOOSE d \in 0 .. 9 : DigitChars[d + 1] = c

\* str(n) for n >= 0, as the sequence of its decimal digits.
RECURSIVE StrOfInt(_)
StrOfInt(n) ==
    IF n < 10 THEN <<DigitChars[n + 1]>>
    ELSE Append(StrOfInt(n \div 10), DigitChars[(n % 10) + 1])

\* int(s) of a sequence of decimal digits.
RECURSIVE IntOfStr(_)
IntOfStr(s) ==
    IF s = <<>> THEN 0
    ELSE 10 * IntOfStr(SubSeq(s, 1, Len(s) - 1)) + DigitVal(s[Len(s)])

\* A plausible slip: the text is written as it is, markup included.
RECURSIVE EscapeNothing(_)
EscapeNothing(s) ==
    IF s = <<>> THEN <<>> ELSE <<Head(s)>> \o EscapeNothing(Tail(s))

\* lxml.etree.tostring on element text: the markup characters are written
\* as entities.
RECURSIVE Escape(_)
Escape(s) ==
    IF s = <<>> THEN <<>>
    ELSE (CASE Head(s) = "<" -> <<"&", "l", "t", ";">>
            [] Head(s) = "&" -> <<"&", "a", "m", "p", ";">>
            [] OTHER -> <<Head(s)>>) \o Escape(Tail(s))

StartsWith(s, p) == Len(s) >= Len(p) /\ SubSeq(s, 1, Len(p)) = p

\* The HTML parser on element text: entities are read back as characters.
RECURSIVE Unescape(_)
Unescape(s) ==
    IF s = <<>> THEN <<>>
    ELSE IF StartsWith(s, <<"&", "l", "t", ";">>)
         THEN <<"<">> \o Unescape(SubSeq(s, 5, Len(s)))
    ELSE IF StartsWith(s, <<"&", "a", "m", "p", ";">>)
         THEN <<"&">> \o Unescape(SubSeq(s, 6, Len(s)))
    ELSE <<Head(s)>> \o Unescape(Tail(s))

\* str_strip_whitespace of the model configuration (models.py:36-41).
StripWhitespace(s) == Strip(s)

(* ---- Pokemon and PersonalComputer ---- *)

MaxPc == 2

PkmnIds == {7, 12}
PkmnNames ==
    {<<>>, <<"a", " ", "b">>, <<"<", "&">>, <<"&", "l", "t", ";">>}

\* A custom sprite URL, with the stem of its file name; and the official
\* artwork's URL of Pokemon.sprite_url.
CustomUrl == [kind |-> "custom", stem |-> <<"7", "a">>]
ArtworkUrl(shiny, id) ==
    [kind |-> "artwork", shiny |-> shiny, stem |-> StrOfInt(id)]

Pokemon(id, name, shiny, url) ==
    [id |-> id, name |-> StripWhitespace(name), shiny |-> shiny,
     custom_sprite_url |-> url]

Pokemons ==
    {Pokemon(i, n, s, u) : i \in PkmnIds, n \in PkmnNames,
                           s \in BOOLEAN, u \in {NoVal, CustomUrl}}

\* Pokemon.sprite_url (models.py:52-61).
sprite_url(p) ==
    IF p.custom_sprite_url # NoVal THEN p.custom_sprite_url
    ELSE ArtworkUrl(p.shiny, p.id)

\* Pokemon.model_dump_html (models.py:82-99): the serialised element, by
\* its class attribute (a list of words), its data-pkmn-id attribute (NoVal
\* when an element has none), the text of its div.pkmn-name and the src of
\* its img.
Pokemon_model_dump_html(p) ==
    [class |-> IF p.shiny THEN <<"pkmn-display", "shiny">>
               ELSE <<"pkmn-display">>,
     data_pkmn_id |-> [t |-> "str", s |-> StrOfInt(p.id)],
     pkmn_name |-> Escape(p.name),
     src |-> sprite_url(p)]

IsDigits(s) ==
    /\ s # <<>>
    /\ \A i \in 1 .. Len(s) : \E d \in 1 .. 10 : DigitChars[d] = s[i]

\* Pokemon.parse_html (models.py:63-80).  Without the id attribute the id
\* is the stem of the image's file name, and int() raises on a stem that is
\* not a number.
Pokemon_parse_html(e) ==
    LET idtext == IF e.data_pkmn_id # NoVal THEN e.data_pkmn_id.s
                  ELSE e.src.stem
    IN  IF ~IsDigits(idtext) THEN Raises("ValueError", "int")
        ELSE [out |-> "ok",
              val |-> Pokemon(IntOfStr(idtext), Unescape(e.pkmn_name),
                              \E i \in 1 .. Len(e.class) :
                                  e.class[i] = "shiny",
                              e.src)]

\* A plausible slip: the entries are written sorted by id.
PersonalComputer_model_dump_htmlSorted(root) ==
    LET lo == {i \in 1 .. Len(root) :
                  \A j \in 1 .. Len(root) : root[i].id <= root[j].id}
        first == CHOOSE i \in lo : \A j \in lo : i <= j
    IN  IF root = <<>> THEN <<>>
        ELSE <<Pokemon_model_dump_html(root[first])>> \o
             [k \in 1 .. Len(root) - 1 |->
                 Pokemon_model_dump_html(
                     root[IF k < first THEN k ELSE k + 1])]

\* PersonalComputer.model_dump_html (models.py:132-133): the entries'
\* HTML, joined in the list's order.
PersonalComputer_model_dump_html(root) ==
    [i \in 1 .. Len(root) |-> Pokemon_model_dump_html(root[i])]

\* Character._validate_personal_computer (models.py:316-324): each fragment
\* of the field's HTML is parsed, in document order; the first error leaves
\* the validator.
validate_personal_computer(html) ==
    LET rs == [i \in 1 .. Len(html) |-> Pokemon_parse_html(html[i])]
    IN  IF \E i \in 1 .. Len(rs) : rs[i].out # "ok"
        THEN Raises("ValueError", "int")
        ELSE [out |-> "ok", val |-> [i \in 1 .. Len(rs) |-> rs[i].val]]

\* A personal computer is dumped, and the HTML is validated again.
RoundTripInit ==
    \E root \in SeqsUpTo(Pokemons, MaxPc) :
        PureInit([kind |-> "round_trip", pc |-> "start", arg |-> root,
                  html |-> NoVal, out |-> "none", val |-> NoVal])

CallModelDumpHtml ==
    /\ op.kind = "round_trip" /\ op.pc = "start"
    /\ PureStep([op EXCEPT !.pc = "dumped",
                           !.html = PersonalComputer_model_dump_html(op.arg)])

CallValidatePersonalComputer ==
    /\ op.kind = "round_trip" /\ op.pc = "dumped"
    /\ LET r == validate_personal_computer(op.html)
       IN  PureStep([op EXCEPT !.pc = "done", !.out = r.out,
                               !.val = r.val])

NextRoundTrip == CallModelDumpHtml \/ CallValidatePersonalComputer

SpecRoundTrip == RoundTripInit /\ [][NextRoundTrip]_vars

(* ------------------- properties of the personal computer -------------- *)

\* C24: personal-computer round trip.  For every list of Pokemon entries,
\* model_dump_html followed by the validator of the personal_computer field
\* gives a list of the same length whose entries have, position by
\* position, the same id, name and shiny flag.
C24_RoundTrip ==
    (op.kind = "round_trip" /\ op.pc = "done") =>
        /\ op.out = "ok"
        /\ Len(op.val) = Len(op.arg)
        /\ \A i \in 1 .. Len(op.arg) :
              /\ op.val[i].id = op.arg[i].id
              /\ op.val[i].name = op.arg[i].name
              /\ op.val[i].shiny = op.arg[i].shiny

C24_Witness ==
    /\ op.kind = "round_trip" /\ op.pc = "done"
    /\ Len(op.arg) = 2
    /\ op.arg[1].id > op.arg[2].id
    /\ op.arg[1].name = <<"&", "l", "t", ";">>
    /\ op.arg[1].shiny /\ ~op.arg[2].shiny
    /\ op.arg[1].custom_sprite_url = NoVal
    /\ op.val[1].custom_sprite_url # NoVal

(* ========= ext/astonish.py: register, add_pokemon, remove_pokemon ===== *)

\* The text of field_32: empty, blank, text that is not JSON, or a JSON
\* object, given by its members: version (absent, 1 or 2), discord_id
\* (absent, null or a number) and whether it has a member the model does
\* not know.
EmptyText == [t |-> "text", kind |-> "empty"]

Payloads ==
    {EmptyText, [t |-> "text", kind |-> "blank"],
     [t |-> "text", kind |-> "garbage"]}
        \cup {[t |-> "text", kind |-> "object", version |-> v,
               discord_id |-> d, other |-> o] :
                  v \in {"absent", "1", "2"},
                  d \in {"absent", "null", "5"}, o \in BOOLEAN}

\* ExtraDataV1 (models.py:418-422), with discord_id None as NoVal.
ExtraDataV1(discord_id) ==
    [t |-> "ExtraDataV1", version |-> 1, discord_id |-> discord_id]

\* The inner validator of Json['ExtraData'] (models.py:304, 418-428): the
\* text is read as JSON and the object is validated as ExtraDataV1, whose
\* version is the literal 1 and defaults to it; unknown members are
\* ignored.
ExtraHandler(v) ==
    IF v.kind # "object" THEN Raises("ValidationError", "json_invalid")
    ELSE IF v.version = "2" THEN Raises("ValidationError", "version")
    ELSE [out |-> "ok",
          val |-> ExtraDataV1(IF v.discord_id = "5"
                              THEN [t |-> "int", n |-> IntOfStr(<<"5">>)]
                              ELSE NoVal)]

\* Character._validate_extra (models.py:304-314).
validate_extra(v) ==
    IF v = EmptyText THEN [out |-> "ok", val |-> ExtraDataV1(NoVal)]
    ELSE ExtraHandler(v)

\* Every command gets its own Character from the transformer, which calls
\* get_character without cached=True (transformers.py:161): a new object is
\* validated from the forum's fields and put in the cache.  `op` holds the
\* forum's fields of the character (field_25, field_32), the member's
\* roles and which object the cache holds; fr[t] holds command t with its
\* Character, and may overlap with the other command while it waits for
\* its confirmation and for the forum.
TeamPokemons ==
    {Pokemon(7, <<"a">>, FALSE, NoVal), Pokemon(12, <<"b">>, TRUE, CustomUrl),
     Pokemon(7, <<"a">>, TRUE, NoVal)}

\* The `pokemon` argument of remove_pokemon: numbers, and names.
Queries ==
    {StrOfInt(n) : n \in 0 .. MaxPc + 1}
        \cup {<<"-", "1">>, <<"A">>, <<"b">>, <<"x">>}

\* str.casefold on the letters of the names.
Casefold(s) ==
    [i \in 1 .. Len(s) |->
        CASE s[i] = "A" -> "a" [] s[i] = "B" -> "b" [] OTHER -> s[i]]

\* int(name_or_index): a number, or ValueError.
IntOfQuery(q) ==
    IF IsDigits(q) THEN [out |-> "ok", val |-> IntOfStr(q)]
    ELSE IF Len(q) > 1 /\ Head(q) = "-" /\ IsDigits(Tail(q))
         THEN [out |-> "ok", val |-> 0 - IntOfStr(Tail(q))]
    ELSE Raises("ValueError", "int")

\* A plausible slip: the number is taken as it is, counting from zero.
ResolveIndexFromZero(pc, q) ==
    LET n == IntOfQuery(q)
        hits == {i \in 1 .. Len(pc) : Casefold(pc[i].name) = Casefold(q)}
    IN  IF n.out = "ok" THEN [none |-> FALSE, index |-> n.val]
        ELSE IF hits = {} THEN [none |-> TRUE, index |-> 0]
        ELSE [none |-> FALSE,
              index |-> (CHOOSE i \in hits : \A j \in hits : i <= j) - 1]

\* ext/astonish.py:359-372: the 0-based index of the entry to remove, None
\* when the query is no number and no entry has the name.
ResolveIndex(pc, q) ==
    LET n == IntOfQuery(q)
        hits == {i \in 1 .. Len(pc) : Casefold(pc[i].name) = Casefold(q)}
    IN  IF n.out = "ok" THEN [none |-> FALSE, index |-> n.val - 1]
        ELSE IF hits = {} THEN [none |-> TRUE, index |-> 0]
        ELSE [none |-> FALSE,
              index |-> (CHOOSE i \in hits : \A j \in hits : i <= j) - 1]

\* A plausible slip: list.remove(pkmn), which removes the first equal entry.
ListPopByValue(pc, index) ==
    LET first == CHOOSE i \in 1 .. Len(pc) :
                     /\ pc[i] = pc[index + 1]
                     /\ \A j \in 1 .. i - 1 : pc[j] # pc[index + 1]
    IN  [k \in 1 .. Len(pc) - 1 |-> pc[IF k < first THEN k ELSE k + 1]]

\* list.pop(index) for 0 <= index < len(pc).
ListPop(pc, index) ==
    [k \in 1 .. Len(pc) - 1 |-> pc[IF k < index + 1 THEN k ELSE k + 1]]

\* The Discord member a register command names, as extra.discord_id holds
\* it.
MemberId == [t |-> "int", n |-> IntOfStr(<<"5">>)]

\* ExtraDataV1.model_dump_json (client.py:207): the JSON text of the object.
ExtraData_model_dump_json(extra) ==
    [t |-> "text", kind |-> "object", version |-> "1",
     discord_id |-> IF extra.discord_id = NoVal THEN "null" ELSE "5",
     other |-> FALSE]

\* get_roles_for_chara (ext/astonish.py:535-556) for a Strategos who is
\* neither inamorata nor hemitheos, and get_roles_to_remove (559-560).
get_roles_for_chara == {"Strategos", "Members"}
get_roles_to_remove == {"Guests"}

\* One command: its position, its arguments, the Character object the
\* transformer gave it (root, discord_id), and what it has done so far.
IdleCommand ==
    [pc |-> "idle", cmd |-> "none", query |-> <<>>, index |-> 0,
     pkmn |-> NoVal, new |-> NoVal, root |-> <<>>, discord_id |-> NoVal,
     resolved |-> <<>>, before |-> <<>>, before_id |-> NoVal,
     after |-> <<>>, dumped |-> <<>>,
     body |-> [field_25 |-> <<>>, field_32 |-> EmptyText],
     shown |-> FALSE, result |-> "none", called |-> FALSE,
     updated |-> FALSE, reply |-> "none", out |-> "none"]

\* The forum's two fields of one character, the member's roles, and the
\* cache entry of the character: the object built by the start-up
\* (client.py:72-81) until a command's object replaces it (cached is the
\* slot of that command).
TeamInit ==
    \E root \in SeqsUpTo(TeamPokemons, MaxPc) :
        /\ jar = {}
        /\ now = 0
        /\ cache = [i \in Ids |-> NoEntry]
        /\ lru = <<>>
        /\ op = [kind |-> "team",
                 field_25 |-> PersonalComputer_model_dump_html(root),
                 field_32 |-> EmptyText,
                 startup |->
                     [root |-> validate_personal_computer(
                                   PersonalComputer_model_dump_html(root)).val,
                      discord_id |-> validate_extra(EmptyText).val.discord_id],
                 cached |-> 0,
                 roles |-> get_roles_to_remove]
        /\ fr = [t \in 1 .. 2 |-> IdleCommand]
        /\ fetched = [i \in Ids |-> NoFetch]
        /\ intact = [i \in Ids |-> FALSE]
        /\ budget = 0

TeamStep(t, c, o) ==
    /\ fr' = [fr EXCEPT ![t] = c]
    /\ op' = o
    /\ UNCHANGED <<jar, now, cache, lru, fetched, intact, budget>>

\* CharacterTransformer.transform (transformers.py:158-161) with
\* get_character (client.py:157-176): a new Character is validated from the
\* forum's fields, stored in the cache and given to the command.
Transformed(c) ==
    [c EXCEPT !.root = validate_personal_computer(op.field_25).val,
              !.discord_id = validate_extra(op.field_32).val.discord_id]

\* The Character the cache holds (client.py:54-57, 294-295).
CachedCharacter ==
    IF op.cached = 0 THEN op.startup
    ELSE [root |-> fr[op.cached].root,
          discord_id |-> fr[op.cached].discord_id]

\* add_pokemon up to the confirmation (ext/astonish.py:262-303).
CallAddPokemon(t) ==
    /\ op.kind = "team" /\ fr[t].pc = "idle"
    /\ \E new \in TeamPokemons :
          LET c == Transformed(fr[t])
          IN  TeamStep(t, [c EXCEPT !.pc = "confirm", !.cmd = "add",
                                    !.new = new, !.resolved = c.root,
                                    !.shown = TRUE],
                       [op EXCEPT !.cached = t])

\* remove_pokemon up to the confirmation (ext/astonish.py:345-402): the
\* index is resolved, and a query that finds nothing ends the command.
CallRemovePokemon(t) ==
    /\ op.kind = "team" /\ fr[t].pc = "idle"
    /\ \E q \in Queries :
          LET g == Transformed(fr[t])
              r == ResolveIndex(g.root, q)
              c == [g EXCEPT !.cmd = "remove", !.query = q,
                             !.index = r.index, !.resolved = g.root]
          IN  IF r.none \/ ~(0 <= r.index /\ r.index < Len(g.root))
              THEN TeamStep(t, [c EXCEPT !.pc = "done",
                                         !.reply = "not found",
                                         !.out = "not found"],
                            [op EXCEPT !.cached = t])
              ELSE TeamStep(t, [c EXCEPT !.pc = "confirm",
                                         !.pkmn = g.root[r.index + 1],
                                         !.shown = TRUE],
                            [op EXCEPT !.cached = t])

\* register up to the confirmation (ext/astonish.py:183-203).
CallRegister(t) ==
    /\ op.kind = "team" /\ fr[t].pc = "idle"
    /\ TeamStep(t, [Transformed(fr[t]) EXCEPT !.pc = "confirm",
                                              !.cmd = "register",
                                              !.shown = TRUE],
                [op EXCEPT !.cached = t])

\* A plausible slip: only a cancelled confirmation ends the command.
DeclinedOnlyCancel(result) == result = "cancel"

\* `if not continuation: return` (ext/astonish.py:205-206, 305-306,
\* 404-405): display returns an interaction only for Accept.
Declined(result) == result # "accept"

\* The confirmation has returned (ext/astonish.py:205-211, 305-322,
\* 404-411).  Without an accepting interaction the command returns; with
\* one the command's Character is changed and update_character is called,
\* up to its first await.
Confirmed(t) ==
    /\ op.kind = "team" /\ fr[t].pc = "confirm"
    /\ \E result \in {"accept", "cancel", "timeout"} :
          LET c == [fr[t] EXCEPT !.result = result,
                                 !.before = fr[t].root,
                                 !.before_id = fr[t].discord_id]
          IN  IF Declined(result)
              THEN TeamStep(t, [c EXCEPT !.pc = "done", !.out = "declined"],
                            op)
              ELSE IF fr[t].cmd = "add"
              THEN LET after == Append(fr[t].root, fr[t].new)
                   IN  TeamStep(t, [c EXCEPT !.pc = "update",
                                             !.called = TRUE,
                                             !.root = after,
                                             !.after = after], op)
              ELSE IF fr[t].cmd = "remove"
              THEN LET after == ListPop(fr[t].root, fr[t].index)
                   IN  TeamStep(t, [c EXCEPT !.pc = "update",
                                             !.called = TRUE,
                                             !.root = after,
                                             !.after = after], op)
              ELSE TeamStep(t, [c EXCEPT !.pc = "update",
                                         !.called = TRUE,
                                         !.discord_id = MemberId,
                                         !.after = fr[t].root], op)

\* A plausible slip: the error is logged and the command goes on to the
\* roles.
update_failedGoesOn(c) ==
    IF c.cmd = "register" THEN [c EXCEPT !.pc = "add_roles"]
    ELSE [c EXCEPT !.pc = "done", !.out = "error"]

\* update_character has raised.  register catches the exception, sends the
\* failure message and returns (ext/astonish.py:212-219); in the other two
\* commands it leaves the command.
update_failed(c) ==
    IF c.cmd = "register"
    THEN [c EXCEPT !.pc = "done", !.out = "error", !.reply = "failed"]
    ELSE [c EXCEPT !.pc = "done", !.out = "error"]

\* update_character has the edit form, or its fetch failed
\* (client.py:204-213): the two fields are dumped from the command's
\* Character as it is now.
FormFetched(t) ==
    /\ op.kind = "team" /\ fr[t].pc = "update"
    /\ \E ok \in BOOLEAN :
          IF ok
          THEN TeamStep(t, [fr[t] EXCEPT
                               !.pc = "post", !.dumped = fr[t].root,
                               !.body =
                                   [field_25 |->
                                        PersonalComputer_model_dump_html(
                                            fr[t].root),
                                    field_32 |->
                                        ExtraData_model_dump_json(
                                            ExtraDataV1(fr[t].discord_id))]],
                        op)
          ELSE TeamStep(t, update_failed(fr[t]), op)

\* The forum has answered the POST (client.py:212-215): on success the
\* forum has the body's fields and the cache the command's Character.
\* register goes on to the roles (ext/astonish.py:221-225), the other two
\* commands to their message.
Posted(t) ==
    /\ op.kind = "team" /\ fr[t].pc = "post"
    /\ \E ok \in BOOLEAN :
          IF ok
          THEN TeamStep(t, IF fr[t].cmd = "register"
                           THEN [fr[t] EXCEPT !.pc = "add_roles",
                                              !.updated = TRUE]
                           ELSE [fr[t] EXCEPT !.pc = "done", !.out = "ok",
                                              !.updated = TRUE,
                                              !.reply = fr[t].cmd],
                        [op EXCEPT !.field_25 = fr[t].body.field_25,
                                   !.field_32 = fr[t].body.field_32,
                                   !.cached = t])
          ELSE TeamStep(t, update_failed(fr[t]), op)

\* member.add_roles has returned or raised (ext/astonish.py:222-225).
RolesAdded(t) ==
    /\ op.kind = "team" /\ fr[t].pc = "add_roles"
    /\ \E ok \in BOOLEAN :
          IF ok
          THEN TeamStep(t, [fr[t] EXCEPT !.pc = "remove_roles"],
                        [op EXCEPT !.roles = @ \cup get_roles_for_chara])
          ELSE TeamStep(t, [fr[t] EXCEPT !.pc = "done",
                                         !.out = "roles error"], op)

\* member.remove_roles has returned or raised, and the success message
\* (ext/astonish.py:226-235).
RolesRemoved(t) ==
    /\ op.kind = "team" /\ fr[t].pc = "remove_roles"
    /\ \E ok \in BOOLEAN :
          IF ok
          THEN TeamStep(t, [fr[t] EXCEPT !.pc = "done", !.out = "ok",
                                         !.reply = "linked"],
                        [op EXCEPT !.roles = @ \ get_roles_to_remove])
          ELSE TeamStep(t, [fr[t] EXCEPT !.pc = "done",
                                         !.out = "roles error"], op)

NextTeam ==
    \E t \in 1 .. 2 :
        \/ CallAddPokemon(t)
        \/ CallRemovePokemon(t)
        \/ CallRegister(t)
        \/ Confirmed(t)
        \/ FormFetched(t)
        \/ Posted(t)
        \/ RolesAdded(t)
        \/ RolesRemoved(t)

SpecTeam == TeamInit /\ [][NextTeam]_vars

\* The id, name and shiny flag of the entries of a list, in order.
Values(pc) ==
    [i \in 1 .. Len(pc) |->
        [id |-> pc[i].id, name |-> pc[i].name, shiny |-> pc[i].shiny]]

Changed(t) == fr[t].called
Wrote(t) == fr[t].pc = "post" \/ fr[t].out = "ok"

\* C23: personal-computer order across read-modify-write.  add_pokemon
\* leaves the list it found with every entry at its position and the new
\* entry after them; remove_pokemon takes out the entry at the resolved
\* index (the number given minus one, or the first entry with the name) and
\* leaves the others in their order; and what is sent to the forum reads
\* back as the list in memory, entry by entry.
C23_OrderPreserved ==
    op.kind = "team" =>
        \A t \in 1 .. 2 :
            /\ (fr[t].cmd = "add" /\ Changed(t)) =>
                  /\ Len(fr[t].after) = Len(fr[t].before) + 1
                  /\ SubSeq(fr[t].after, 1, Len(fr[t].before)) = fr[t].before
                  /\ fr[t].after[Len(fr[t].after)] = fr[t].new
            /\ (fr[t].cmd = "remove" /\ Changed(t)) =>
                  /\ Len(fr[t].after) = Len(fr[t].before) - 1
                  /\ \A i \in 1 .. Len(fr[t].after) :
                        fr[t].after[i] =
                            fr[t].before[IF i <= fr[t].index THEN i
                                         ELSE i + 1]
                  /\ IntOfQuery(fr[t].query).out = "ok" =>
                        fr[t].index = IntOfQuery(fr[t].query).val - 1
                  /\ IntOfQuery(fr[t].query).out # "ok" =>
                        /\ Casefold(fr[t].pkmn.name) =
                               Casefold(fr[t].query)
                        /\ \A i \in 1 .. fr[t].index :
                              Casefold(fr[t].resolved[i].name) #
                                  Casefold(fr[t].query)
            /\ Wrote(t) =>
                  /\ validate_personal_computer(fr[t].body.field_25).out = "ok"
                  /\ Values(validate_personal_computer(fr[t].body.field_25).val) =
                         Values(fr[t].dumped)
            /\ (Wrote(t) /\ fr[3 - t].pc = "idle") =>
                  fr[t].dumped = fr[t].after

C23_Witness ==
    /\ op.kind = "team"
    /\ fr[1].cmd = "add" /\ fr[1].out = "ok"
    /\ fr[2].cmd = "remove" /\ fr[2].out = "ok"
    /\ fr[2].index = 2 /\ Len(fr[2].before) = 3
    /\ fr[2].before[1] = fr[2].before[3]
    /\ Values(fr[2].before) = Values(fr[1].after)
    /\ Values(validate_personal_computer(op.field_25).val) =
           Values(fr[2].after)

(* ------------------- Character.model_validate: extra ------------------ *)

\* The personal-computer field of a form: the dump of a list, or HTML with
\* an entry that has no id and a sprite whose file name is not a number.
BrokenHtml ==
    <<[class |-> <<"pkmn-display">>, data_pkmn_id |-> NoVal,
       pkmn_name |-> <<"a">>, src |-> CustomUrl]>>

Field25s ==
    {PersonalComputer_model_dump_html(root) :
        root \in SeqsUpTo(TeamPokemons, MaxPc)} \cup {BrokenHtml}

\* Character.model_validate on the fields of an edit form
\* (client.py:171-174): `valid` stands for the fields other than the
\* personal computer and the extra payload.
Character_model_validate(fields) ==
    LET pc == validate_personal_computer(fields.field_25)
        extra == validate_extra(fields.field_32)
    IN  IF ~fields.valid \/ pc.out # "ok" \/ extra.out # "ok"
        THEN [out |-> "ValidationError", val |-> NoVal]
        ELSE [out |-> "ok",
              val |-> [t |-> "chara", personal_computer |-> pc.val,
                       extra |-> extra.val]]

ValidateInit ==
    \E f25 \in Field25s, f32 \in Payloads, valid \in BOOLEAN :
        PureInit([kind |-> "model_validate", pc |-> "start",
                  arg |-> [field_25 |-> f25, field_32 |-> f32,
                           valid |-> valid],
                  out |-> "none", val |-> NoVal])

CallModelValidate ==
    /\ op.kind = "model_validate" /\ op.pc = "start"
    /\ LET r == Character_model_validate(op.arg)
       IN  PureStep([op EXCEPT !.pc = "done", !.out = r.out,
                               !.val = r.val])

NextValidate == CallModelValidate

SpecValidate == ValidateInit /\ [][NextValidate]_vars

Validated == op.kind = "model_validate" /\ op.pc = "done"

\* The rest of the form is fine.
RestValid ==
    /\ op.arg.valid
    /\ validate_personal_computer(op.arg.field_25).out = "ok"

\* A payload that is not a version-1 object: no JSON, or another version.
Unrecognized(v) ==
    /\ v # EmptyText
    /\ v.kind = "object" => v.version = "2"

\* C25: extra payload default.  When field_32 is empty or holds an
\* unrecognized payload and the rest of the form is valid, building the
\* Character does not fail and its extra is the version-1 record with no
\* linked Discord id.
C25_ExtraDefault ==
    (Validated /\ RestValid
        /\ (op.arg.field_32 = EmptyText \/ Unrecognized(op.arg.field_32))) =>
        /\ op.out = "ok"
        /\ op.val.extra = ExtraDataV1(NoVal)

\* An object of another version fails the build.
C25_Witness ==
    /\ Validated /\ RestValid
    /\ Unrecognized(op.arg.field_32)
    /\ op.arg.field_32.kind = "object"
    /\ op.out = "ValidationError"

(* ------------------- the parsers of client.py alone ------------------ *)

\* The documents a parser may be given: every combination of the parts the
\* two parsers read.
ParseDocs ==
    {[Doc(<<MemberLink>>, h, f, n, v, TRUE)
         EXCEPT !.origin = o, !.text = x] :
        h \in BOOLEAN, f \in {0} \cup Ids, n \in 0 .. 2, v \in Vers,
        o \in {"forum", "other"},
        x \in {<<"g">>, <<" ", "g", " ">>, <<"g", " ", "h">>}}

ParseInit ==
    \E doc \in ParseDocs, kind \in {"modcp", "group"} :
        PureInit([kind |-> kind, pc |-> "start", arg |-> doc,
                  out |-> "none", val |-> NoVal])

CallParseModcpFields ==
    /\ op.kind = "modcp" /\ op.pc = "start"
    /\ LET r == ParseModcpFields(op.arg)
       IN  PureStep([op EXCEPT !.pc = "done", !.out = r.out,
                               !.val = r.val])

CallParseCharacterGroup ==
    /\ op.kind = "group" /\ op.pc = "start"
    /\ LET r == ParseCharacterGroup(op.arg)
       IN  PureStep([op EXCEPT !.pc = "done", !.out = r.out,
                               !.val = r.val])

NextParse == CallParseModcpFields \/ CallParseCharacterGroup

SpecParse == ParseInit /\ [][NextParse]_vars

\* The document has no edit form of the forum's origin.
FormAbsent(doc) == doc.form = 0 \/ doc.origin # "forum"

\* C26: _parse_modcp_fields fails with ElementNotFoundError for every
\* document in which the target edit form is absent, and with
\* ValueError('Username not found') for every document in which the heading
\* is absent.
C26_ParseModcpErrors ==
    (op.kind = "modcp" /\ op.pc = "done") =>
        /\ FormAbsent(op.arg) => op.out = "ElementNotFoundError"
        /\ ~op.arg.heading =>
              op.val = Exc("ValueError", "Username not found")

\* A document with neither heading nor form.
C26_Witness ==
    /\ op.kind = "modcp" /\ op.pc = "done"
    /\ FormAbsent(op.arg) /\ op.arg.form = 0 /\ ~op.arg.heading
    /\ op.out = "ValueError"
    /\ op.val = Exc("ValueError", "Username not found")

\* C27: _parse_character_group returns the trimmed text of the
\* trainer-class description element, and raises ElementNotFoundError when
\* no element matches.
C27_ParseGroup ==
    (op.kind = "group" /\ op.pc = "done") =>
        /\ op.arg.spans = 1 =>
              /\ op.out = "ok"
              /\ op.val.text = Strip(op.arg.text)
        /\ op.arg.spans = 0 => op.out = "ElementNotFoundError"

\* No element matches, and the parser raises the ValueError of the tuple
\* unpacking.
C27_Witness ==
    /\ op.kind = "group" /\ op.pc = "done"
    /\ op.arg.spans = 0
    /\ op.out = "ValueError"
    /\ op.val = Exc("ValueError", "unpack")

(* ----------------------- Inventory.parse_html ------------------------- *)

MaxRows == 2

\* The rows of the inventory table after its three heading rows.  A row is
\* given by its text content, its number of td cells, whether the first
\* cell has an img, the text of the name cell and the text of the stock
\* cell.
EmptyMarker == <<"Inventory Empty.">>

MarkerRows ==
    {[text |-> x, cells |-> 1, img |-> FALSE, name |-> <<>>,
      stock |-> <<>>] : x \in {EmptyMarker, <<" ">> \o EmptyMarker \o <<" ">>}}

ItemRows ==
    {[text |-> <<"item">>, cells |-> c, img |-> i, name |-> n,
      stock |-> s] :
        c \in {3, 4}, i \in BOOLEAN, n \in {<<"a">>, <<"b">>},
        s \in {<<"0">>, <<"2">>, <<"1", "2">>, <<"-", "1">>}}

HeadingRow ==
    [text |-> <<"heading">>, cells |-> 2, img |-> FALSE, name |-> <<>>,
     stock |-> <<>>]

\* The page: whether the owner's link is in the first row, and the rows of
\* the table.
InventoryDocs ==
    {[owner |-> o, rows |-> <<HeadingRow, HeadingRow, HeadingRow>> \o data] :
        o \in BOOLEAN, data \in SeqsUpTo(MarkerRows \cup ItemRows, MaxRows)}

\* A plausible slip: a stock of zero is taken.
ItemStack_parse_htmlNonNegative(tr) ==
    LET stock == IntOfQuery(tr.stock)
    IN  IF tr.cells # 4 THEN Raises("ValueError", "unpack")
        ELSE IF ~tr.img THEN Raises("ValueError", "Missing <img> tag")
        ELSE IF stock.out # "ok" \/ stock.val < 0
        THEN Raises("ValidationError", "stock")
        ELSE [out |-> "ok",
              val |-> [t |-> "ItemStack", name |-> tr.name,
                       stock |-> stock.val]]

\* ItemStack.parse_html (models.py:375-389): four cells are unpacked, the
\* icon is looked for and the model is validated, whose stock is a
\* PositiveInt read from the cell's text.
ItemStack_parse_html(tr) ==
    LET stock == IntOfQuery(tr.stock)
    IN  IF tr.cells # 4 THEN Raises("ValueError", "unpack")
        ELSE IF ~tr.img THEN Raises("ValueError", "Missing <img> tag")
        ELSE IF stock.out # "ok" \/ stock.val <= 0
        THEN Raises("ValidationError", "stock")
        ELSE [out |-> "ok",
              val |-> [t |-> "ItemStack", name |-> tr.name,
                       stock |-> stock.val]]

\* Inventory.parse_html (models.py:398-412).
Inventory_parse_html(doc) ==
    LET trs == SubSeq(doc.rows, 4, Len(doc.rows))
        rs == [i \in 1 .. Len(trs) |-> ItemStack_parse_html(trs[i])]
        bad == {i \in 1 .. Len(trs) : rs[i].out # "ok"}
    IN  IF ~doc.owner THEN Raises("ValueError", "unpack")
        ELSE IF trs = <<>> THEN Raises("IndexError", "trs[0]")
        ELSE IF Strip(trs[1].text) = EmptyMarker
        THEN [out |-> "ok", val |-> <<>>]
        ELSE IF bad # {}
        THEN rs[CHOOSE i \in bad : \A j \in bad : i <= j]
        ELSE [out |-> "ok", val |-> [i \in 1 .. Len(trs) |-> rs[i].val]]

InventoryInit ==
    \E doc \in InventoryDocs :
        PureInit([kind |-> "inventory", pc |-> "start", arg |-> doc,
                  out |-> "none", val |-> NoVal])

CallInventoryParseHtml ==
    /\ op.kind = "inventory" /\ op.pc = "start"
    /\ LET r == Inventory_parse_html(op.arg)
       IN  PureStep([op EXCEPT !.pc = "done", !.out = r.out,
                               !.val = r.val])

NextInventory == CallInventoryParseHtml

SpecInventory == InventoryInit /\ [][NextInventory]_vars

\* The rows after the three heading rows, of a page with the owner's link
\* and at least one such row.
DataRows == SubSeq(op.arg.rows, 4, Len(op.arg.rows))
InventoryParsed ==
    /\ op.kind = "inventory" /\ op.pc = "done"
    /\ op.arg.owner /\ DataRows # <<>>

FirstRowEmpty == Strip(DataRows[1].text) = EmptyMarker

BadRow(tr) ==
    \/ tr.cells # 4
    \/ IntOfQuery(tr.stock).out = "ok" /\ IntOfQuery(tr.stock).val <= 0

\* C28: inventory parsing.  When the text of the first data row (row 4) is
\* 'Inventory Empty.' the inventory has zero items.  Otherwise a parse that
\* succeeds has one ItemStack per data row, in row order, each with the
\* row's name and a stock of at least 1; and a data row without exactly
\* four cells or with a stock that is not positive fails the whole parse.
\* A parse of rows that are all well formed (four cells, an icon, a
\* positive stock) succeeds.
C28_InventoryRows ==
    InventoryParsed =>
        /\ FirstRowEmpty => (op.out = "ok" /\ op.val = <<>>)
        /\ (~FirstRowEmpty /\ op.out = "ok") =>
              /\ Len(op.val) = Len(DataRows)
              /\ \A i \in 1 .. Len(DataRows) :
                    /\ op.val[i].name = DataRows[i].name
                    /\ op.val[i].stock = IntOfQuery(DataRows[i].stock).val
                    /\ op.val[i].stock >= 1
        /\ (~FirstRowEmpty /\ \E i \in 1 .. Len(DataRows) :
                                  BadRow(DataRows[i])) =>
              op.out # "ok"
        /\ (~FirstRowEmpty /\ \A i \in 1 .. Len(DataRows) :
                                  ~BadRow(DataRows[i]) /\ DataRows[i].img) =>
              op.out = "ok"

C28_Witness ==
    /\ InventoryParsed /\ ~FirstRowEmpty
    /\ op.out = "ok"
    /\ Len(DataRows) = 2
    /\ op.val[1].stock > op.val[2].stock
    /\ op.val[1].name # op.val[2].name

(* ============================ astonish/shop.py ======================== *)

MaxTypes == 2

\* The text of a span.type element; the empty text stands for an element
\* without text.
TypeTexts ==
    {<<>>, <<"f">>, <<"F">>, <<"f", "*">>, <<"f", " ", "*">>,
     <<"f", "*", "*">>, <<"g">>, <<" ", "g", "*", " ">>}

\* str.lower on the letters of the type names.
Lower(s) ==
    [i \in 1 .. Len(s) |->
        CASE s[i] = "F" -> "f" [] s[i] = "G" -> "g" [] OTHER -> s[i]]

rare_suffix == "*"

EndsWith(s, c) == s # <<>> /\ s[Len(s)] = c

\* str.removesuffix(c): at most one suffix is taken off.
RemoveSuffix(s, c) ==
    IF EndsWith(s, c) THEN SubSeq(s, 1, Len(s) - 1) ELSE s

\* _PokemonType.parse_html (shop.py:124-135), the model's validation
\* stripping the name once more.
PokemonType_parse_html(text) ==
    LET name == Lower(Strip(text))
    IN  IF text = <<>> THEN Raises("ValueError", "Name must not be empty")
        ELSE [out |-> "ok",
              val |-> [name |-> StripWhitespace(
                                    RemoveSuffix(name, rare_suffix)),
                       rarity |-> IF EndsWith(name, rare_suffix)
                                  THEN "RARE" ELSE "COMMON"]]

\* A plausible slip: a name that is there already is overwritten.
RECURSIVE Region_parse_typesOverwrite(_, _)
Region_parse_typesOverwrite(spans, types) ==
    IF spans = <<>> THEN [out |-> "ok", val |-> types]
    ELSE LET t == PokemonType_parse_html(Head(spans))
         IN  IF t.out # "ok" THEN t
             ELSE Region_parse_typesOverwrite(
                      Tail(spans),
                      {p \in types : p[1] # t.val.name}
                          \cup {<<t.val.name, t.val.rarity>>})

\* The loop of Region.parse_html (shop.py:95-101) over the span.type
\* elements in document order; types is the dict so far, as a set of
\* (name, rarity) pairs.
RECURSIVE Region_parse_types(_, _)
Region_parse_types(spans, types) ==
    IF spans = <<>> THEN [out |-> "ok", val |-> types]
    ELSE LET t == PokemonType_parse_html(Head(spans))
         IN  IF t.out # "ok" THEN t
             ELSE IF \E p \in types : p[1] = t.val.name
             THEN Raises("ValueError", "Non-unique PokemonType")
             ELSE Region_parse_types(
                      Tail(spans),
                      types \cup {<<t.val.name, t.val.rarity>>})

\* Region.parse_html (shop.py:90-106) on a region element, given by
\* whether it has its one .region-title and by its span.type texts.
Region_parse_html(element) ==
    IF ~element.title THEN Raises("ValueError", "unpack")
    ELSE Region_parse_types(element.types, {})

RegionInit ==
    \E title \in BOOLEAN, types \in SeqsUpTo(TypeTexts, MaxTypes) :
        PureInit([kind |-> "region", pc |-> "start",
                  arg |-> [title |-> title, types |-> types],
                  out |-> "none", val |-> NoVal])

CallRegionParseHtml ==
    /\ op.kind = "region" /\ op.pc = "start"
    /\ LET r == Region_parse_html(op.arg)
       IN  PureStep([op EXCEPT !.pc = "done", !.out = r.out,
                               !.val = r.val])

NextRegion == CallRegionParseHtml

SpecRegion == RegionInit /\ [][NextRegion]_vars

RegionParsed == op.kind = "region" /\ op.pc = "done" /\ op.arg.title

\* The entry's text, trimmed and in lower case, as the site shows it.
Shown(i) == Lower(Strip(op.arg.types[i]))

\* C29: shop region parsing.  Of a region that parses, every type entry
\* whose name ends in '*' is in the region's types as rare under the name
\* without the marker, every other entry as common under its name, and
\* there are as many types as entries; a region in which two entries yield
\* the same name fails the parse.
C29_RegionTypes ==
    RegionParsed =>
        /\ op.out = "ok" =>
              /\ Cardinality(op.val) = Len(op.arg.types)
              /\ \A i \in 1 .. Len(op.arg.types) :
                    IF EndsWith(Shown(i), "*")
                    THEN <<Strip(SubSeq(Shown(i), 1, Len(Shown(i)) - 1)),
                           "RARE">> \in op.val
                    ELSE <<Shown(i), "COMMON">> \in op.val
        /\ (\E i, j \in 1 .. Len(op.arg.types) :
               /\ i # j
               /\ PokemonType_parse_html(op.arg.types[i]).out = "ok"
               /\ PokemonType_parse_html(op.arg.types[j]).out = "ok"
               /\ PokemonType_parse_html(op.arg.types[i]).val.name =
                      PokemonType_parse_html(op.arg.types[j]).val.name) =>
              op.out = "ValueError"

C29_Witness ==
    /\ RegionParsed /\ op.out = "ok"
    /\ op.arg.types = <<<<" ", "g", "*", " ">>, <<"F">>>>
    /\ op.val = {<<<<"g">>, "RARE">>, <<<<"f">>, "COMMON">>}

(* ====================== discord/views.py: ConfirmationView ============ *)

\* `op` holds the display call and the view: pc is where display is
\* ("call": not begun, "send": its message is being sent, "wait": in
\* View.wait, "woken": the wait is over and the task is queued, "done"),
\* is_done whether the original interaction has been responded to (by a
\* defer, as in the commands that call display after responding, so that
\* the follow-up becomes the original response), kwargs_view and
\* kwargs_ephemeral the caller's keyword arguments, ephemeral the flag the
\* message is sent with, value and interaction the view's
\* _value and _interaction, stopped whether the view has ended and how
\* (stop() or timeout), message the message with the buttons, and as
\* history which button was pressed, whether the timeout fired and whether
\* a delete call failed.  fr[1] is the task of a button's callback and
\* fr[2] the task of on_timeout.
IdleTask == [pc |-> "idle"]

ConfirmInit ==
    \E is_done \in BOOLEAN, kwargs_view \in BOOLEAN,
       kwargs_ephemeral \in {"absent", "True", "False"} :
        /\ jar = {}
        /\ now = 0
        /\ cache = [i \in Ids |-> NoEntry]
        /\ lru = <<>>
        /\ op = [kind |-> "display", pc |-> "call", is_done |-> is_done,
                 kwargs_view |-> kwargs_view,
                 kwargs_ephemeral |-> kwargs_ephemeral,
                 ephemeral |-> "none", via |-> "none",
                 value |-> "None", interaction |-> "None",
                 stopped |-> "no", message |-> "none",
                 pressed |-> "none", again |-> "none",
                 timed_out |-> FALSE,
                 delete_failed |-> FALSE, out |-> "none", val |-> "none"]
        /\ fr = [t \in 1 .. 2 |-> IdleTask]
        /\ fetched = [i \in Ids |-> NoFetch]
        /\ intact = [i \in Ids |-> FALSE]
        /\ budget = 0

ViewStep(o, tasks) ==
    /\ op' = o
    /\ fr' = tasks
    /\ UNCHANGED <<jar, now, cache, lru, fetched, intact, budget>>

\* display lines 178-190, up to the await of the send: a `view` argument
\* is refused, ephemeral defaults to True, and the message goes out as a
\* follow-up when the interaction has been responded to.
CallDisplay ==
    /\ op.kind = "display" /\ op.pc = "call"
    /\ IF op.kwargs_view
       THEN ViewStep([op EXCEPT !.pc = "done", !.out = "ValueError"], fr)
       ELSE ViewStep([op EXCEPT
                         !.pc = "send",
                         !.ephemeral = IF op.kwargs_ephemeral = "absent"
                                       THEN "True"
                                       ELSE op.kwargs_ephemeral,
                         !.via = IF op.is_done THEN "followup"
                                 ELSE "response"], fr)

\* display lines 187-192: the message with the view has been sent, or the
\* send raised.
SendDone ==
    /\ op.kind = "display" /\ op.pc = "send"
    /\ \E ok \in BOOLEAN :
          IF ok
          THEN ViewStep([op EXCEPT !.pc = "wait", !.message = "shown"], fr)
          ELSE ViewStep([op EXCEPT !.pc = "done", !.out = "error"], fr)

\* A user presses Cancel or Accept (lines 194-208): the callback runs
\* _finish up to its await (218-220).  A view that has ended takes no
\* presses, and the user decides once.
Press ==
    /\ op.kind = "display" /\ op.message = "shown"
    /\ op.stopped = "no" /\ op.pressed = "none"
    /\ \E b \in {"accept", "cancel"} :
          ViewStep([op EXCEPT !.pressed = b,
                              !.value = IF b = "accept" THEN "True"
                                        ELSE "False",
                              !.interaction = b],
                   [fr EXCEPT ![1] = [pc |-> "delete"]])

\* The view's timeout passes before the view was stopped: View.wait is
\* over, and after it a task for on_timeout is queued.
Timeout ==
    /\ op.kind = "display" /\ op.pc = "wait" /\ op.stopped = "no"
    /\ ViewStep([op EXCEPT !.stopped = "timeout", !.timed_out = TRUE,
                           !.pc = "woken"],
                [fr EXCEPT ![2] = [pc |-> "start"]])

\* on_timeout (210-211) runs _finish(False, None) up to its await.  It was
\* queued after the wake-up of display.
OnTimeout ==
    /\ op.kind = "display" /\ fr[2].pc = "start" /\ op.pc # "woken"
    /\ ViewStep([op EXCEPT !.value = "False", !.interaction = "None"],
                [fr EXCEPT ![2] = [pc |-> "delete"]])

\* delete_original_response has returned in task t (220-221): the message
\* is gone and stop() ends the wait, unless the view has ended; or the
\* call raised, as it does for a message that is gone, and stop() is not
\* reached.
DeleteDone(t) ==
    /\ op.kind = "display" /\ fr[t].pc = "delete"
    /\ \E ok \in BOOLEAN :
          IF ok /\ op.message = "shown"
          THEN ViewStep([op EXCEPT
                            !.message = "deleted",
                            !.stopped = IF @ = "no" THEN "stop" ELSE @,
                            !.pc = IF op.stopped = "no" /\ @ = "wait"
                                   THEN "woken" ELSE @],
                        [fr EXCEPT ![t] = [pc |-> "done"]])
          ELSE ViewStep([op EXCEPT !.delete_failed = TRUE],
                        [fr EXCEPT ![t] = [pc |-> "failed"]])

\* A plausible slip: the interaction is returned whenever there is one.
wait_for_resultAnyInteraction(view) ==
    IF view.interaction # "None" THEN view.interaction ELSE "None"

\* wait_for_result after the wait (226-230).
wait_for_result(view) ==
    IF view.value = "True" THEN view.interaction ELSE "None"

\* display resumes and returns.
Resume ==
    /\ op.kind = "display" /\ op.pc = "woken"
    /\ ViewStep([op EXCEPT !.pc = "done", !.out = "ok",
                           !.val = wait_for_result(op)], fr)

NextConfirm ==
    \/ CallDisplay
    \/ SendDone
    \/ Press
    \/ Timeout
    \/ OnTimeout
    \/ \E t \in 1 .. 2 : DeleteDone(t)
    \/ Resume

SpecConfirm == ConfirmInit /\ [][NextConfirm]_vars

\* The send and the delete calls return, the timer runs and queued tasks
\* are run; whether the user presses a button is up to the user.
SpecConfirmFair ==
    /\ SpecConfirm
    /\ WF_vars(CallDisplay)
    /\ WF_vars(SendDone)
    /\ WF_vars(Timeout)
    /\ WF_vars(OnTimeout)
    /\ \A t \in 1 .. 2 : WF_vars(DeleteDone(t))
    /\ WF_vars(Resume)

Displayed == op.kind = "display" /\ op.pc = "done" /\ op.out = "ok"

ForumPc == validate_personal_computer(op.field_25).val

\* update_character raised for command t, after the command changed its
\* Character.
UpdateRaised(t) == fr[t].called /\ fr[t].out = "error"

\* C33: a failed update does not leak into the cache.  When
\* update_character raised in register, add_pokemon or remove_pokemon (and
\* no other command has run), the Character the cache holds has the
\* personal computer and the extra.discord_id the command's character had
\* before the command changed it.
C33_FailedUpdateNotCached ==
    op.kind = "team" =>
        \A t \in 1 .. 2 :
            (UpdateRaised(t) /\ fr[3 - t].pc = "idle") =>
                /\ CachedCharacter.root = fr[t].before
                /\ CachedCharacter.discord_id = fr[t].before_id

C33_Witness ==
    /\ op.kind = "team"
    /\ fr[1].cmd = "register" /\ UpdateRaised(1) /\ fr[2].pc = "idle"
    /\ fr[1].before_id = NoVal
    /\ CachedCharacter.discord_id = MemberId
    /\ op.field_32 = EmptyText

\* Entry p of a list has the id, name and shiny flag of q.
SamePokemon(p, q) ==
    /\ p.id = q.id /\ p.name = q.name /\ p.shiny = q.shiny

\* C34: no lost update.  When two add_pokemon commands for the character
\* were both confirmed and both update_character calls succeeded, the
\* personal computer the forum stores has both added Pokemon, at two
\* positions.
C34_NoLostUpdate ==
    op.kind = "team" =>
        ((/\ fr[1].cmd = "add" /\ fr[1].out = "ok"
          /\ fr[2].cmd = "add" /\ fr[2].out = "ok") =>
            \E i, j \in 1 .. Len(ForumPc) :
                /\ i # j
                /\ SamePokemon(ForumPc[i], fr[1].new)
                /\ SamePokemon(ForumPc[j], fr[2].new))

C34_Witness ==
    /\ op.kind = "team"
    /\ fr[1].cmd = "add" /\ fr[1].out = "ok"
    /\ fr[2].cmd = "add" /\ fr[2].out = "ok"
    /\ fr[1].before = <<>> /\ fr[2].before = <<>>
    /\ Len(ForumPc) = 1
    /\ ~SamePokemon(fr[1].new, fr[2].new)
    /\ SamePokemon(ForumPc[1], fr[1].new)

\* C35: a declined confirmation changes nothing.  When the confirmation of
\* register, add_pokemon or remove_pokemon was cancelled or timed out, the
\* command has ended with its Character as the transformer gave it,
\* without calling update_character and without reaching the roles.
C35_DeclinedChangesNothing ==
    op.kind = "team" =>
        \A t \in 1 .. 2 :
            fr[t].result \in {"cancel", "timeout"} =>
                /\ fr[t].pc = "done" /\ fr[t].out = "declined"
                /\ fr[t].root = fr[t].before
                /\ fr[t].discord_id = fr[t].before_id
                /\ ~fr[t].called /\ ~fr[t].updated
                /\ fr[t].reply = "none"
                /\ (fr[3 - t].pc = "idle" \/ fr[3 - t].result # "accept") =>
                      /\ op.roles = get_roles_to_remove
                      /\ op.field_32 = EmptyText
                      /\ Values(ForumPc) = Values(fr[t].before)

C35_Witness ==
    /\ op.kind = "team"
    /\ fr[1].cmd = "register" /\ fr[1].result = "timeout"
    /\ fr[2].cmd = "remove" /\ fr[2].result = "cancel"
    /\ Len(fr[2].root) = MaxPc
    /\ op.roles = get_roles_to_remove

\* C36: register changes the roles only after the forum update succeeded.
\* Every step that changes the member's roles is a step of a register
\* command whose update_character has returned; and when update_character
\* raised, the command has ended with the failure message.
C36_RolesAfterUpdate ==
    /\ [][(op.kind = "team" /\ op'.roles # op.roles) =>
             \E t \in 1 .. 2 :
                 /\ fr[t].cmd = "register" /\ fr[t].updated
                 /\ fr[t].pc \in {"add_roles", "remove_roles"}
                 /\ fr'[t] # fr[t]]_vars
    /\ [](op.kind = "team" =>
             \A t \in 1 .. 2 :
                 /\ (fr[t].cmd = "register" /\ UpdateRaised(t)) =>
                       /\ fr[t].pc = "done" /\ fr[t].reply = "failed"
                       /\ ~fr[t].updated
                 /\ fr[t].pc \in {"add_roles", "remove_roles"} =>
                       fr[t].updated)

C36_Witness ==
    /\ op.kind = "team"
    /\ fr[1].cmd = "register" /\ UpdateRaised(1) /\ fr[1].reply = "failed"
    /\ fr[1].body.field_32 # EmptyText
    /\ fr[2].cmd = "register" /\ fr[2].out = "ok" /\ fr[2].reply = "linked"
    /\ op.roles = get_roles_for_chara

\* The query names no entry of the list: a number outside 1..len(pc), or
\* text that is no number and equals no entry's name, ignoring case.
Unresolvable(pc, q) ==
    IF IntOfQuery(q).out = "ok"
    THEN IntOfQuery(q).val \notin 1 .. Len(pc)
    ELSE \A i \in 1 .. Len(pc) : Casefold(pc[i].name) # Casefold(q)

\* C37: remove_pokemon rejects an unresolvable target.  For a number
\* outside 1..len(pc) or a name that no entry has, the command has replied
\* that nothing was found, shown no confirmation, left the list as it was
\* and not called update_character; a name that several entries have is
\* resolved to the first of them.
C37_RejectsUnresolvable ==
    op.kind = "team" =>
        \A t \in 1 .. 2 :
            fr[t].cmd = "remove" =>
                /\ Unresolvable(fr[t].resolved, fr[t].query) =>
                      /\ fr[t].pc = "done" /\ fr[t].out = "not found"
                      /\ fr[t].reply = "not found"
                      /\ ~fr[t].shown /\ ~fr[t].called
                      /\ fr[t].root = fr[t].resolved
                /\ (fr[t].shown /\ IntOfQuery(fr[t].query).out # "ok") =>
                      /\ Casefold(fr[t].resolved[fr[t].index + 1].name) =
                             Casefold(fr[t].query)
                      /\ \A i \in 1 .. fr[t].index :
                            Casefold(fr[t].resolved[i].name) #
                                Casefold(fr[t].query)

C37_Witness ==
    /\ op.kind = "team"
    /\ fr[1].cmd = "remove" /\ fr[1].query = <<"0">>
    /\ Len(fr[1].resolved) = MaxPc /\ fr[1].out = "not found"
    /\ fr[2].cmd = "remove" /\ fr[2].query = <<"A">> /\ fr[2].shown
    /\ fr[2].index = 0
    /\ Casefold(fr[2].resolved[2].name) = Casefold(fr[2].query)


(* ====================== ext/astonish.py: lookup ======================== *)

\* Another Discord member.
OtherMemberId == [t |-> "int", n |-> IntOfStr(<<"6">>)]
MemberIds == {MemberId, OtherMemberId}

\* A Character by what lookup reads of it: id, extra.discord_id and
\* whether its group is a restricted one (models.py:263-330).
Chara(id, discord_id, restricted) ==
    [t |-> "chara", id |-> id, discord_id |-> discord_id,
     restricted |-> restricted]

\* The client after its start, before any character is linked: `op` holds
\* the forum's characters, the lookup in progress and whether the cache
\* ever dropped an entry to make room.
LookupInit ==
    \E restricted \in [Ids -> BOOLEAN] :
        /\ jar = {}
        /\ now = 0
        /\ cache = [i \in Ids |-> NoEntry]
        /\ lru = <<>>
        /\ op = [kind |-> "lookup", pc |-> "idle",
                 forum |-> [i \in Ids |-> Chara(i, NoVal, restricted[i])],
                 evicted |-> FALSE, member |-> NoVal, shown |-> <<>>,
                 reply |-> "none"]
        /\ fr = [t \in 1 .. 2 |-> IdleTask]
        /\ fetched = [i \in Ids |-> NoFetch]
        /\ intact = [i \in Ids |-> FALSE]
        /\ budget = 0

\* _update_in_cache(chara) at the present time (client.py:294-295).
LookupStore(chara, forum) ==
    LET w == TTLCache_setitem(cache, lru, chara.id, chara, now)
    IN  /\ cache' = w.cache
        /\ lru' = w.lru
        /\ op' = [op EXCEPT !.forum = forum,
                            !.evicted = @ \/ w.evicted # {}]
        /\ UNCHANGED <<jar, now, fr, fetched, intact, budget>>

\* A register command that succeeds (ext/astonish.py:208-211,
\* client.py:204-215): the forum has the link and the cache the character.
Register ==
    /\ op.kind = "lookup" /\ op.pc = "idle"
    /\ \E i \in Ids, m \in MemberIds :
          LET chara == [op.forum[i] EXCEPT !.discord_id = m]
          IN  LookupStore(chara, [op.forum EXCEPT ![i] = chara])

\* A command's transformer fetches a character (transformers.py:161,
\* client.py:157-176): the cache has the forum's character again.
GetCharacter ==
    /\ op.kind = "lookup" /\ op.pc = "idle"
    /\ \E i \in Ids : LookupStore(op.forum[i], op.forum)

LookupTick ==
    /\ op.kind = "lookup" /\ op.pc = "idle"
    /\ now < MaxTime
    /\ now' = now + 1
    /\ UNCHANGED <<jar, cache, lru, op, fr, fetched, intact, budget>>

\* TTLCache.values() at time t: the values of the entries that have not
\* expired.
TTLCache_values(c, t) == {c[k].val : k \in {x \in Keys(c) : t < c[x].expires}}

\* AstonishCog._user_characters (ext/astonish.py:470-475).
user_characters(values, id) ==
    {chara \in values : chara.discord_id = id /\ ~chara.restricted}

\* sorted(..., key=lambda c: c.id) (ext/astonish.py:449).
RECURSIVE SortedById(_)
SortedById(charas) ==
    IF charas = {} THEN <<>>
    ELSE LET least == CHOOSE c \in charas : \A d \in charas : c.id <= d.id
         IN  <<least>> \o SortedById(charas \ {least})

\* lookup (ext/astonish.py:432-468) for a member: the list is built from
\* the cache and either the 'no characters' message or the list view is
\* sent.  Reading the values moves the live keys to the recently-used end.
CallLookup ==
    /\ op.kind = "lookup" /\ op.pc = "idle"
    /\ \E m \in MemberIds :
          LET live == {k \in Keys(cache) : now < cache[k].expires}
              charas == SortedById(
                            user_characters(TTLCache_values(cache, now), m))
          IN  /\ op' = [op EXCEPT !.pc = "done", !.member = m,
                                  !.shown = charas,
                                  !.reply = IF Len(charas) = 0
                                            THEN "no characters"
                                            ELSE "list"]
              /\ lru' = Keep(lru, Keys(cache) \ live) \o Keep(lru, live)
    /\ UNCHANGED <<jar, now, cache, fr, fetched, intact, budget>>

\* The command has ended.
LookupReturn ==
    /\ op.kind = "lookup" /\ op.pc = "done"
    /\ op' = [op EXCEPT !.pc = "idle", !.member = NoVal, !.shown = <<>>,
                        !.reply = "none"]
    /\ UNCHANGED <<jar, now, cache, lru, fr, fetched, intact, budget>>

NextLookup ==
    \/ Register
    \/ GetCharacter
    \/ LookupTick
    \/ CallLookup
    \/ LookupReturn

SpecLookup == LookupInit /\ [][NextLookup]_vars

\* The forum's characters that are linked to the member and not restricted.
LinkedTo(m) ==
    {op.forum[i] : i \in {x \in Ids : /\ op.forum[x].discord_id = m
                                      /\ ~op.forum[x].restricted}}

\* C31: lookup shows the member's characters.  A lookup shows every
\* non-restricted character of the forum whose extra.discord_id is the
\* member's id, in ascending order of id, at any time after they were
\* linked, and reports 'no characters' only when there is none (stated
\* for a cache that never dropped an entry to make room).
C31_LookupShowsLinked ==
    (op.kind = "lookup" /\ op.pc = "done" /\ ~op.evicted) =>
        /\ op.shown = SortedById(LinkedTo(op.member))
        /\ op.reply = "no characters" <=> LinkedTo(op.member) = {}

C31_Witness ==
    /\ op.kind = "lookup" /\ op.pc = "done" /\ ~op.evicted
    /\ op.member = MemberId
    /\ LinkedTo(MemberId) # {}
    /\ op.reply = "no characters"
    /\ now >= ttl


(* ======================= views.py: EmbedMenu =========================== *)

\* The largest number of pages of a menu.
MaxCount == 3

Buttons == {"first", "previous", "next", "last"}
Users == {"original", "other"}

\* A plausible slip: only the lower end is enforced.
clampLowerOnly(x, lower, upper) ==
    IF x < lower THEN lower ELSE x

\* utils.clamp (utils.py:34-44).
clamp(x, lower, upper) ==
    IF x < lower THEN lower
    ELSE IF x > upper THEN upper
    ELSE x

\* The buttons' disabled flags for a position (views.py:38-44, 126-129).
DisabledAt(index, count) ==
    [b \in Buttons |-> IF b \in {"first", "previous"} THEN index = 0
                       ELSE index = count - 1]

\* create_embed(index) of the two menus (ext/astonish.py:492-509,
\* 524-531): the embed of the list's item at the index, where a negative
\* index counts from the end of the list, with the position index + 1 in
\* its footer; an index outside the list raises IndexError.
create_embed(index, count) ==
    IF 0 - count <= index /\ index < count
    THEN [out |-> "ok",
          val |-> [t |-> "embed", index |-> index,
                   item |-> IF index < 0 THEN index + count ELSE index]]
    ELSE Raises("IndexError", "list index out of range")

IdleHandler ==
    [pc |-> "idle", user |-> "none", button |-> "none", index |-> 0,
     sent |-> NoVal, current |-> 0, out |-> "none"]

\* EmbedMenu.__init__ (views.py:18-36) and the message the command sends
\* with the default embed (ext/astonish.py:98-102, 464-468).  `op` holds
\* the view (count, index, the buttons' flags, the embed cache), the
\* message as Discord shows it and the buttons of its previous rendering;
\* fr[t] holds a button callback.
MenuInit ==
    \E count \in 1 .. MaxCount :
        LET disabled == [b \in Buttons |->
                            IF b \in {"first", "previous"} THEN TRUE
                            ELSE count = 1]
        IN  /\ jar = {}
            /\ now = 0
            /\ cache = [i \in Ids |-> NoEntry]
            /\ lru = <<>>
            /\ op = [kind |-> "menu", count |-> count, index |-> 0,
                     disabled |-> disabled,
                     embed_cache |-> {create_embed(0, count).val},
                     message |-> [embed |-> create_embed(0, count).val,
                                  disabled |-> disabled],
                     rendered |-> disabled]
            /\ fr = [t \in 1 .. 2 |-> IdleHandler]
            /\ fetched = [i \in Ids |-> NoFetch]
            /\ intact = [i \in Ids |-> FALSE]
            /\ budget = 0

\* The target of a button, computed when its callback starts
\* (views.py:51-70).
Target(button) ==
    CASE button = "first" -> 0
      [] button = "previous" -> op.index - 1
      [] button = "next" -> op.index + 1
      [] button = "last" -> op.count - 1

\* A user presses a button that is enabled in the message, or was in its
\* previous rendering (a press made before the last edit arrived); the
\* callback runs up to `await interaction.response.defer` (views.py:111).
MenuPress(t) ==
    /\ op.kind = "menu" /\ fr[t].pc = "idle"
    /\ \E user \in Users, button \in Buttons :
          /\ ~op.message.disabled[button] \/ ~op.rendered[button]
          /\ fr' = [fr EXCEPT ![t] = [IdleHandler EXCEPT
                                         !.pc = "defer", !.user = user,
                                         !.button = button,
                                         !.index = Target(button)]]
    /\ UNCHANGED <<jar, now, cache, lru, op, fetched, intact, budget>>

\* A plausible slip: everybody may navigate.
RefusedNobody(user) == FALSE

\* `interaction.user != self.original_user` (views.py:115).
Refused(user) == user # "original"

\* The embeds of the cache for an index (views.py:85-86).
Cached(index) == {e \in op.embed_cache : e.index = index}

\* The edit of the message is called with the embed and the view as it is
\* now (views.py:133).
CallEdit(h, embed, view) ==
    [h EXCEPT !.pc = "edit",
              !.sent = [embed |-> embed, disabled |-> view.disabled],
              !.current = view.index]

\* defer has returned (views.py:113-132): another user gets the refusal;
\* for the original user the index is set (views.py:135-139) and, when it
\* changed, the buttons are updated and the embed is taken from the cache
\* or its creation is awaited.
Deferred(t) ==
    /\ op.kind = "menu" /\ fr[t].pc = "defer"
    /\ UNCHANGED <<jar, now, cache, lru, fetched, intact, budget>>
    /\ IF Refused(fr[t].user)
       THEN /\ fr' = [fr EXCEPT ![t].pc = "refuse"]
            /\ op' = op
       ELSE LET index == clamp(fr[t].index, 0, op.count - 1)
                view == [op EXCEPT !.index = index,
                                   !.disabled = DisabledAt(index, op.count)]
            IN  IF index = op.index
                THEN /\ fr' = [fr EXCEPT ![t].pc = "done",
                                         ![t].out = "unchanged"]
                     /\ op' = op
                ELSE /\ op' = view
                     /\ fr' = [fr EXCEPT ![t] =
                                  IF Cached(fr[t].index) # {}
                                  THEN CallEdit(fr[t],
                                                CHOOSE e \in
                                                    Cached(fr[t].index) :
                                                    TRUE,
                                                view)
                                  ELSE [fr[t] EXCEPT !.pc = "create"]]

\* create_embed has returned or raised (views.py:87-90, 132-133): the
\* embed is stored in the cache and the edit is called.
Created(t) ==
    /\ op.kind = "menu" /\ fr[t].pc = "create"
    /\ UNCHANGED <<jar, now, cache, lru, fetched, intact, budget>>
    /\ LET r == create_embed(fr[t].index, op.count)
       IN  IF r.out = "ok"
           THEN /\ op' = [op EXCEPT !.embed_cache = @ \cup {r.val}]
                /\ fr' = [fr EXCEPT ![t] = CallEdit(fr[t], r.val, op)]
           ELSE /\ op' = op
                /\ fr' = [fr EXCEPT ![t].pc = "done", ![t].out = r.out]

\* Discord has applied the edit (views.py:133).
Edited(t) ==
    /\ op.kind = "menu" /\ fr[t].pc = "edit"
    /\ op' = [op EXCEPT !.message = fr[t].sent,
                        !.rendered = op.message.disabled]
    /\ fr' = [fr EXCEPT ![t].pc = "done", ![t].out = "edited"]
    /\ UNCHANGED <<jar, now, cache, lru, fetched, intact, budget>>

\* The ephemeral refusal has been sent (views.py:116-121).
RefusalSent(t) ==
    /\ op.kind = "menu" /\ fr[t].pc = "refuse"
    /\ fr' = [fr EXCEPT ![t].pc = "done", ![t].out = "refused"]
    /\ UNCHANGED <<jar, now, cache, lru, op, fetched, intact, budget>>

\* The callback has ended.
HandlerEnd(t) ==
    /\ op.kind = "menu" /\ fr[t].pc = "done"
    /\ fr' = [fr EXCEPT ![t] = IdleHandler]
    /\ UNCHANGED <<jar, now, cache, lru, op, fetched, intact, budget>>

NextMenu ==
    \E t \in 1 .. 2 :
        \/ MenuPress(t)
        \/ Deferred(t)
        \/ Created(t)
        \/ Edited(t)
        \/ RefusalSent(t)
        \/ HandlerEnd(t)

SpecMenu == MenuInit /\ [][NextMenu]_vars

\* C32: only the original user navigates an EmbedMenu.  No step of a
\* callback whose interaction comes from another user changes the index,
\* the buttons' flags, the embed cache or the message; the callback ends
\* with the ephemeral refusal.
C32_OnlyOriginalUser ==
    /\ [][op.kind = "menu" =>
             \A t \in 1 .. 2 :
                 (fr[t].user = "other" /\ fr'[t] # fr[t]) => op' = op]_vars
    /\ [](op.kind = "menu" =>
             \A t \in 1 .. 2 :
                 (fr[t].user = "other" /\ fr[t].pc = "done") =>
                     fr[t].out = "refused")

C32_Witness ==
    /\ op.kind = "menu"
    /\ fr[1].user = "other" /\ fr[1].button = "last"
    /\ fr[1].out = "refused"
    /\ op.count = MaxCount /\ op.index = 0
    /\ op.message.embed.index = 0

\* C38: the index of an EmbedMenu stays in range.  For a menu with
\* count >= 1, whatever buttons were pressed and however their callbacks
\* interleave, 0 <= index <= count - 1.
C38_IndexInRange ==
    (op.kind = "menu" /\ op.count >= 1) =>
        /\ 0 <= op.index
        /\ op.index <= op.count - 1

C38_Witness ==
    /\ op.kind = "menu"
    /\ op.count = MaxCount /\ op.index = op.count - 1
    /\ fr[1].button = "next" /\ fr[1].index = op.count
    /\ fr[1].out = "unchanged"
    /\ fr[2].button = "previous" /\ fr[2].index < 0

\* C39: an EmbedMenu shows the page it is on.  Whenever a callback calls
\* the edit of the message, the embed it sends is the one created for the
\* index the menu has at that moment, and it is the embed of that item.
C39_ShowsCurrentPage ==
    op.kind = "menu" =>
        \A t \in 1 .. 2 :
            fr[t].pc = "edit" =>
                /\ fr[t].sent.embed.index = fr[t].current
                /\ fr[t].sent.embed.item = fr[t].current

C39_Witness ==
    /\ op.kind = "menu"
    /\ fr[1].pc = "edit" /\ fr[1].button = "last"
    /\ fr[1].sent.embed.index = MaxCount - 1
    /\ fr[1].current = 1
    /\ fr[2].button = "previous" /\ fr[2].out = "edited"
    /\ op.message.embed.index = 1


(* ------------- ConfirmationView: a second press of a button ----------- *)

\* A button is pressed again while the first callback awaits the deletion
\* of the message (views.py:194-208, 218-220): the view has not been
\* stopped, so the callback is run, and _finish assigns the value and the
\* interaction of this press before its own await.
PressAgain ==
    /\ op.kind = "display" /\ op.message = "shown"
    /\ op.stopped = "no" /\ op.pressed # "none" /\ op.again = "none"
    /\ fr[1].pc = "delete" /\ fr[2].pc = "idle"
    /\ \E b \in {"accept", "cancel"} :
          ViewStep([op EXCEPT !.again = b,
                              !.value = IF b = "accept" THEN "True"
                                        ELSE "False",
                              !.interaction = IF b = "accept"
                                              THEN "accept again"
                                              ELSE "cancel again"],
                   [fr EXCEPT ![2] = [pc |-> "delete"]])

\* display with a user who may press a second button; the timeout is the
\* one of a view that no second callback is running for.
NextConfirmTwice ==
    \/ CallDisplay
    \/ SendDone
    \/ Press
    \/ PressAgain
    \/ fr[2].pc = "idle" /\ Timeout
    \/ OnTimeout
    \/ \E t \in 1 .. 2 : DeleteDone(t)
    \/ Resume

SpecConfirmTwice == ConfirmInit /\ [][NextConfirmTwice]_vars

\* C40: a confirmation is decided once.  After the first press of Accept
\* or Cancel, what display returns is decided by that press: the
\* interaction of that press for Accept and None for Cancel, whatever
\* button press or timeout arrives while the first callback awaits the
\* deletion of the message.
C40_DecidedOnce ==
    (Displayed /\ op.pressed # "none") =>
        /\ op.pressed = "accept" => op.val = "accept"
        /\ op.pressed = "cancel" => op.val = "None"

C40_Witness ==
    /\ Displayed
    /\ op.pressed = "cancel" /\ op.again = "accept"
    /\ op.val = "accept again"
    /\ op.message = "deleted" /\ fr[1].pc = "done"

====
